---------------------------- MODULE Spec2Model ----------------------------
(***************************************************************************)
(* The user-profile cache of the social network application                *)
(* (src/lib/cache/userCache.ts), the profile functions of firebaseUtils    *)
(* that drive it (getUserProfile, updateUserProfile) and the detached      *)
(* repair of denormalized author fields (updateUserContentReferences).     *)
(*                                                                         *)
(* Every await of the code is a suspension point: an operation is a small  *)
(* process whose steps are the runs of code between two awaits, and the    *)
(* steps of different operations interleave freely (one JavaScript event   *)
(* loop, so a step itself is atomic).  A store round trip is one step: the *)
(* server reads or writes at that step, and the code after the await runs  *)
(* in a later step.                                                        *)
(***************************************************************************)
EXTENDS Integers, Sequences, FiniteSets, TLC

(***************************************************************************)
(* Program constants.  The clock of the model counts half TTLs, so the     *)
(* five minutes of CACHE_TTL are 2 ticks; the two capacities are scaled    *)
(* down with the number of users and posts of the model.  The 'in' limit   *)
(* of a Firestore query keeps its value.                                   *)
(***************************************************************************)
CACHE_TTL == 2

MAX_CACHE_SIZE == 2

MAX_BATCH_SIZE == 2

IN_LIMIT == 10

(***************************************************************************)
(* Bounds of the model.                                                    *)
(***************************************************************************)
MaxTime == 3

\* updateUserProfile calls of a behaviour of SpecRepair, and of Spec
MaxUpdates == 2

MaxEdits == 1

\* the ids of the longest getUsers request
MaxIds == 23

\* The comment ids that are given out: createPost and addComment have given
\* out ids 1..4 before the first state, addComment gives out the rest.
MaxCommentId == 5

\* The oldest date formatTimeAgo is given, in whole days.
MaxDays == 800

\* The accounts the small requests name; account 3 has no profile.
Users == {1, 2, 3}

\* The slots of the operations in flight.
Tasks == {1, 2}

Repairs == 1..MaxUpdates

Min(a, b) == IF a < b THEN a ELSE b

Range(s) == {s[i] : i \in DOMAIN s}

(***************************************************************************)
(* The "users" collection.  A profile document carries uid, displayName    *)
(* and photoURL; rev stands for updatedAt, which every write of the        *)
(* document sets to the time of the write: it orders the versions of one   *)
(* profile.  NoProfile is the null of getUserProfile.                      *)
(***************************************************************************)
NoProfile == [uid |-> 0, displayName |-> "", photoURL |-> "", rev |-> 0]

InitialProfile(id) ==
    [uid |-> id, displayName |-> "n0", photoURL |-> "a0", rev |-> 1]

\* Every third account has no profile document (a deleted account).
HasInitialProfile(id) == id % 3 # 0

\* The document of id in the "users" collection.  The variable holds the
\* documents of the accounts of Users; no operation of the model writes the
\* document of another account.
UserDoc(store, id) ==
    IF id \in DOMAIN store THEN store[id]
    ELSE IF HasInitialProfile(id) THEN InitialProfile(id) ELSE NoProfile

\* The partial profiles updateUserProfile is called with.
UpdateData ==
    { [displayName |-> "n1"], [displayName |-> "n2"], [photoURL |-> "a1"] }

\* JavaScript truthiness of data.displayName || data.photoURL.
Truthy(data, key) == key \in DOMAIN data /\ data[key] # ""

\* updateDoc(userRef, {...data, updatedAt: new Date()})
MergeProfile(p, data) ==
    [k \in DOMAIN p |->
        IF k = "rev" THEN p.rev + 1
        ELSE IF k \in DOMAIN data THEN data[k] ELSE p[k]]

(***************************************************************************)
(* The cache: a Map from uid to {user, timestamp}, modelled as a function  *)
(* whose domain is the set of keys present.                                *)
(***************************************************************************)
EmptyCache == [k \in {} |-> [user |-> NoProfile, timestamp |-> 0]]

\* A faulty variant of IsFresh that still serves an entry whose age is
\* exactly the TTL; C5_GetFreshness tells it from the code's comparison.
IsFresh_Inclusive(entry, now) == now - entry.timestamp <= CACHE_TTL

IsFresh(entry, now) == now - entry.timestamp < CACHE_TTL

\* A faulty variant of CacheHit that serves whatever the map holds;
\* C9_StaleNeverServed tells it from the code's check.
CacheHit_AnyAge(c, uid, now) == uid \in DOMAIN c

\* cached && Date.now() - cached.timestamp < CACHE_TTL
CacheHit(c, uid, now) == uid \in DOMAIN c /\ IsFresh(c[uid], now)

\* A faulty variant of cleanupCache that empties the map to make room (a hard
\* bound); C10_FreshEntriesKept tells it from the code's sweep.
cleanupCache_Hard(c, now) == [k \in {} |-> c[k]]

\* cleanupCache: delete every entry whose age is at least the TTL.
cleanupCache(c, now) ==
    [k \in {u \in DOMAIN c : ~(now - c[u].timestamp >= CACHE_TTL)} |-> c[k]]

\* A faulty variant of setUser that sweeps before every insertion;
\* C11_SweepOnlyAtCapacity tells it from the code's size test.
setUser_AlwaysSweep(c, uid, user, now) ==
    LET swept == cleanupCache(c, now)
    IN  [k \in DOMAIN swept \cup {uid} |->
            IF k = uid THEN [user |-> user, timestamp |-> now] ELSE swept[k]]

\* A faulty variant of setUser that keeps the timestamp of an entry it
\* replaces; C28_LastWriterWins tells it from the code's Map.set of a new
\* object.
setUser_KeepTimestamp(c, uid, user, now) ==
    LET swept == IF Cardinality(DOMAIN c) >= MAX_CACHE_SIZE
                 THEN cleanupCache(c, now) ELSE c
    IN  [k \in DOMAIN swept \cup {uid} |->
            IF k = uid
            THEN [user |-> user,
                  timestamp |-> IF uid \in DOMAIN swept
                                THEN swept[uid].timestamp ELSE now]
            ELSE swept[k]]

\* setUser: sweep when the map is at capacity, then insert with the current time.
setUser(c, uid, user, now) ==
    LET swept == IF Cardinality(DOMAIN c) >= MAX_CACHE_SIZE
                 THEN cleanupCache(c, now) ELSE c
    IN  [k \in DOMAIN swept \cup {uid} |->
            IF k = uid THEN [user |-> user, timestamp |-> now] ELSE swept[k]]

\* A faulty variant of invalidateUser that drops the whole map;
\* C21_InvalidateRemovesOnlyId tells it from the code's Map.delete.
invalidateUser_Clear(c, uid) == [k \in {} |-> c[k]]

\* invalidateUser: Map.delete
invalidateUser(c, uid) == [k \in DOMAIN c \ {uid} |-> c[k]]

\* clearCache: Map.clear
clearCache(c) == EmptyCache

\* The loop of getUsers that stores every fetched profile, in the order of the
\* fetched map (a sequence of profiles here).
RECURSIVE setUsers(_, _, _)
setUsers(c, fetched, now) ==
    IF fetched = <<>> THEN c
    ELSE setUsers(setUser(c, Head(fetched).uid, Head(fetched), now),
                  Tail(fetched), now)

(***************************************************************************)
(* batchGetUsers: the uids are cut into slices of at most IN_LIMIT, and    *)
(* one 'in' query is issued per slice.                                     *)
(***************************************************************************)
\* A faulty variant of slice whose end index is inclusive; C7_Chunking tells
\* it from Array.prototype.slice.
slice_Inclusive(s, from, to) == SubSeq(s, from + 1, Min(to + 1, Len(s)))

\* Array.prototype.slice(from, to) on a sequence indexed from 1.
slice(s, from, to) == SubSeq(s, from + 1, Min(to, Len(s)))

\* for (let i = 0; i < uids.length; i += 10) batches.push(uids.slice(i, i + 10))
RECURSIVE BatchesFrom(_, _)
BatchesFrom(uids, i) ==
    IF i < Len(uids)
    THEN <<slice(uids, i, i + IN_LIMIT)>> \o BatchesFrom(uids, i + IN_LIMIT)
    ELSE <<>>

RECURSIVE SortedSeq(_)
SortedSeq(S) ==
    IF S = {} THEN <<>>
    ELSE LET m == CHOOSE x \in S : \A y \in S : x <= y
         IN  <<m>> \o SortedSeq(S \ {m})

\* query(collection(db, "users"), where("uid", "in", batch)): the documents
\* whose uid is one of the batch, each once, in document order.
QueryUsers(store, batch) ==
    LET found == {u \in Range(batch) : UserDoc(store, u) # NoProfile}
        order == SortedSeq(found)
    IN  [i \in 1..Len(order) |-> UserDoc(store, order[i])]

\* result.set(userData.uid, userData) on a Map kept as a sequence of profiles
\* in insertion order: a key already present keeps its place.
MapSet(m, p) ==
    IF \E i \in 1..Len(m) : m[i].uid = p.uid
    THEN [i \in 1..Len(m) |-> IF m[i].uid = p.uid THEN p ELSE m[i]]
    ELSE Append(m, p)

RECURSIVE MapSetAll(_, _)
MapSetAll(m, ps) ==
    IF ps = <<>> THEN m ELSE MapSetAll(MapSet(m, Head(ps)), Tail(ps))

(***************************************************************************)
(* The "posts" collection.  A post carries the denormalized name and       *)
(* avatar of its author and an array of comments, each with the            *)
(* denormalized name and avatar of the comment's author.                   *)
(***************************************************************************)
Comment(cid, author) ==
    [id |-> cid, authorId |-> author,
     authorName |-> InitialProfile(author).displayName,
     authorPhotoURL |-> InitialProfile(author).photoURL]

PostOf(author, comments) ==
    [authorId |-> author,
     authorName |-> InitialProfile(author).displayName,
     authorPhotoURL |-> InitialProfile(author).photoURL,
     comments |-> comments,
     likes |-> <<>>]

\* What createPost and addComment have written before the first profile edit:
\* user 1 has one post, commented by user 2 and by user 1; user 2 has two
\* posts, the first commented by user 1, the second by user 3, whose profile
\* document is gone since.
InitPosts ==
    <<PostOf(1, <<Comment(1, 2), Comment(2, 1)>>),
      PostOf(2, <<Comment(3, 1)>>),
      PostOf(2, <<Comment(4, 3)>>)>>

(***************************************************************************)
(* enrichPostsWithUserData: the author fields of the posts read and of     *)
(* their comments are replaced by those of the profiles getCachedUsers     *)
(* resolved.                                                               *)
(***************************************************************************)
\* The documents of the snapshot of getPosts as Post objects, newest first.
PostObjects(store) ==
    [i \in 1..Len(store) |->
        [id |-> Len(store) + 1 - i, post |-> store[Len(store) + 1 - i]]]

\* A faulty variant of SetAdd that keeps an array instead of a Set, so that
\* an author is listed once per occurrence; C29_EnrichAsksOncePerAuthor tells
\* it from the code's Set.
SetAdd_Array(ids, id) == Append(ids, id)

\* Set.add on a Set kept as a sequence in insertion order.
SetAdd(ids, id) == IF id \in Range(ids) THEN ids ELSE Append(ids, id)

RECURSIVE AddCommentAuthors(_, _)
AddCommentAuthors(ids, comments) ==
    IF comments = <<>> THEN ids
    ELSE AddCommentAuthors(SetAdd(ids, Head(comments).authorId), Tail(comments))

\* Lines 378-385: the author of every post and of every comment, each once.
RECURSIVE AuthorIds(_, _)
AuthorIds(ids, records) ==
    IF records = <<>> THEN ids
    ELSE AuthorIds(AddCommentAuthors(SetAdd(ids, Head(records).post.authorId),
                                     Head(records).post.comments),
                   Tail(records))

\* A faulty variant of EnrichAuthor that blanks the author fields of a record
\* whose author did not resolve; C12_EnrichKeepsTheRest tells it from the
\* code's test.
EnrichAuthor_Blank(rec, resolved) ==
    IF rec.authorId \in DOMAIN resolved
    THEN [rec EXCEPT !.authorName = resolved[rec.authorId].displayName,
                     !.authorPhotoURL = resolved[rec.authorId].photoURL]
    ELSE [rec EXCEPT !.authorName = "", !.authorPhotoURL = ""]

\* A faulty variant of EnrichAuthor that returns the record as persisted;
\* C13_EnrichUsesProfiles tells it from the code's overwrite.
EnrichAuthor_Persisted(rec, resolved) == rec

\* Lines 392-398 and 403-411: a copy of the post or comment, with the author
\* fields of the resolved profile when users.get found one.
EnrichAuthor(rec, resolved) ==
    IF rec.authorId \in DOMAIN resolved
    THEN [rec EXCEPT !.authorName = resolved[rec.authorId].displayName,
                     !.authorPhotoURL = resolved[rec.authorId].photoURL]
    ELSE rec

\* A faulty variant of EnrichPosts that drops the comments whose author did
\* not resolve; C30_EnrichPreservesShape tells it from the code's map.
EnrichPosts_DropUnresolved(records, resolved) ==
    [i \in 1..Len(records) |->
        [id |-> records[i].id,
         post |-> LET e == EnrichAuthor(records[i].post, resolved)
                  IN  [e EXCEPT !.comments =
                         SelectSeq(
                            [j \in 1..Len(e.comments) |->
                                EnrichAuthor(e.comments[j], resolved)],
                            LAMBDA c : c.authorId \in DOMAIN resolved)]]]

\* Lines 391-416: posts.map.
EnrichPosts(records, resolved) ==
    [i \in 1..Len(records) |->
        [id |-> records[i].id,
         post |-> LET e == EnrichAuthor(records[i].post, resolved)
                  IN  [e EXCEPT !.comments =
                         [j \in 1..Len(e.comments) |->
                            EnrichAuthor(e.comments[j], resolved)]]]]

\* query(collection(db, "posts"), where("authorId", "==", uid)): the documents
\* of the snapshot, in document order.
QueryPosts(store, uid) ==
    LET ids == SortedSeq({p \in DOMAIN store : store[p].authorId = uid})
    IN  [i \in 1..Len(ids) |-> [id |-> ids[i], data |-> store[ids[i]]]]

\* A faulty variant of UpdatedComments that leaves the comments as they are;
\* C2_OwnPostsRepaired tells it from the code's map.
UpdatedComments_Untouched(comments, uid, name, photo) == comments

\* A faulty variant of UpdatedComments that gives every comment of the post
\* the new name and avatar; C19_RepairFrame tells it from the code's test of
\* the comment's author.
UpdatedComments_All(comments, uid, name, photo) ==
    [i \in 1..Len(comments) |->
        [comments[i] EXCEPT !.authorName = name, !.authorPhotoURL = photo]]

\* Lines 154-163: the comments of the snapshot with the author fields of uid's
\* comments replaced.
UpdatedComments(comments, uid, name, photo) ==
    [i \in 1..Len(comments) |->
        IF comments[i].authorId = uid
        THEN [comments[i] EXCEPT !.authorName = name, !.authorPhotoURL = photo]
        ELSE comments[i]]

\* Lines 144-148: batch.update of the author fields of a post.
AuthorOp(pid, name, photo) ==
    [post |-> pid, kind |-> "author", authorName |-> name,
     authorPhotoURL |-> photo, comments |-> <<>>]

\* Lines 165-167: batch.update of the comments array of a post.
CommentsOp(pid, comments) ==
    [post |-> pid, kind |-> "comments", authorName |-> "",
     authorPhotoURL |-> "", comments |-> comments]

\* A faulty variant of StageFrom that stages the comments of a post before its
\* author fields; C25_SequentialOrderedFlush tells it from the code's order.
RECURSIVE StageFrom_CommentsFirst(_)
StageFrom_CommentsFirst(r) ==
    IF r.i > Len(r.snapshot)
    THEN IF r.batchOperations > 0
         THEN [r EXCEPT !.pc = "commitLast"]
         ELSE [r EXCEPT !.pc = "done"]
    ELSE IF r.committed
    THEN [r EXCEPT !.pc = "failed"]
    ELSE LET d == r.snapshot[r.i]
             staged ==
               [r EXCEPT
                  !.ops = @ \o <<CommentsOp(d.id,
                                    UpdatedComments(d.data.comments, r.uid,
                                                    r.name, r.photo)),
                                 AuthorOp(d.id, r.name, r.photo)>>,
                  !.batchOperations = @ + 1,
                  !.i = @ + 1]
         IN  IF staged.batchOperations >= MAX_BATCH_SIZE
             THEN [staged EXCEPT !.pc = "commit"]
             ELSE StageFrom_CommentsFirst(staged)

\* The run of the loop of lines 140-180 from document r.i up to the next await
\* or the end of the function.  batch.update on a batch that was committed
\* throws; a post always has a comments array, so both updates are staged.
RECURSIVE StageFrom(_)
StageFrom(r) ==
    IF r.i > Len(r.snapshot)
    THEN IF r.batchOperations > 0
         THEN [r EXCEPT !.pc = "commitLast"]
         ELSE [r EXCEPT !.pc = "done"]
    ELSE IF r.committed
    THEN [r EXCEPT !.pc = "failed"]
    ELSE LET d == r.snapshot[r.i]
             staged ==
               [r EXCEPT
                  !.ops = @ \o <<AuthorOp(d.id, r.name, r.photo),
                                 CommentsOp(d.id,
                                    UpdatedComments(d.data.comments, r.uid,
                                                    r.name, r.photo))>>,
                  !.batchOperations = @ + 1,
                  !.i = @ + 1]
         IN  IF staged.batchOperations >= MAX_BATCH_SIZE
             THEN [staged EXCEPT !.pc = "commit"]
             ELSE StageFrom(staged)

\* One update of a committed batch applied to the collection.
ApplyOp(store, op) ==
    [store EXCEPT ![op.post] =
        IF op.kind = "author"
        THEN [@ EXCEPT !.authorName = op.authorName,
                       !.authorPhotoURL = op.authorPhotoURL]
        ELSE [@ EXCEPT !.comments = op.comments]]

RECURSIVE ApplyOps(_, _)
ApplyOps(store, ops) ==
    IF ops = <<>> THEN store
    ELSE ApplyOps(ApplyOp(store, Head(ops)), Tail(ops))

\* A store that enforces the batch limit takes a batch of at most
\* MAX_BATCH_SIZE writes.
StoreAccepts(ops) == Len(ops) <= MAX_BATCH_SIZE

(***************************************************************************)
(* State.                                                                  *)
(***************************************************************************)
VARIABLES
    db,        \* whether Firestore was initialised (the db export is not null)
    users,     \* the "users" collection: uid -> profile or NoProfile (UserDoc)
    posts,     \* the "posts" collection: document id -> post
    cache,     \* userCache.cache
    clock,     \* Date.now()
    tasks,     \* the operations in flight, one per slot
    repairs,   \* the detached updateUserContentReferences calls
    returned,  \* uid -> rev written by the last updateUserProfile that returned
    nUpdates,  \* updateUserProfile calls started so far
    storeFailed, \* whether a round trip to the store has failed
    nComments, \* addComment calls started so far
    session    \* the user and userProfile state of AuthProvider

vars ==
    <<db, users, posts, cache, clock, tasks, repairs, returned, nUpdates,
      storeFailed, nComments, session>>

EmptyMap == [k \in {} |-> NoProfile]

\* useState(null) for user and for userProfile: nobody is signed in.
SignedOutSession == [user |-> 0, userProfile |-> NoProfile]

\* The text 'just now', and '<n> <unit> ago' with its plural s.
JustNow == [count |-> 0, unit |-> "just now", plural |-> FALSE]
Ago(n, unit) == [count |-> n, unit |-> unit, plural |-> n > 1]

\* No comment object.
NoComment == [id |-> 0, authorId |-> 0, authorName |-> "", authorPhotoURL |-> ""]

IdleTask ==
    [op |-> "idle", pc |-> "idle", uid |-> 0, uids |-> <<>>, data |-> <<>>,
     user |-> NoProfile, result |-> EmptyMap, uncached |-> <<>>,
     fetched |-> <<>>, next |-> 0, records |-> <<>>, enriched |-> <<>>,
     post |-> 0, comment |-> NoComment, comments |-> <<>>, likes |-> <<>>,
     diff |-> 0, text |-> JustNow,
     \* what the call observed, kept for the properties
     age |-> -1, ages |-> EmptyMap, lookups |-> 0, calls |-> <<>>,
     minRev |-> 0, revs |-> EmptyMap, wrote |-> 0,
     \* whether clearCache ran while the call was awaiting the store
     cleared |-> FALSE]

IdleRepair ==
    [pc |-> "idle", uid |-> 0, name |-> "", photo |-> "", snapshot |-> <<>>,
     i |-> 0, ops |-> <<>>, batchOperations |-> 0, committed |-> FALSE,
     \* whether another writer wrote a post since this repair started
     dirty |-> FALSE]

Init ==
    /\ db \in BOOLEAN
    /\ users = [id \in Users |->
                  IF HasInitialProfile(id) THEN InitialProfile(id) ELSE NoProfile]
    /\ posts = InitPosts
    /\ cache = EmptyCache
    /\ clock = 0
    /\ tasks = [t \in Tasks |-> IdleTask]
    /\ repairs = [r \in Repairs |-> IdleRepair]
    /\ returned = [u \in Users |-> 0]
    /\ nUpdates = 0
    /\ storeFailed = FALSE
    /\ nComments = 0
    /\ session = SignedOutSession

\* The age of the entry for uid, -1 when the map has none.
AgeOf(c, uid, now) == IF uid \in DOMAIN c THEN now - c[uid].timestamp ELSE -1

\* The version of uid's profile that the last updateUserProfile call that
\* returned has written, 0 when none has.
ReturnedRev(ret, uid) == IF uid \in DOMAIN ret THEN ret[uid] ELSE 0

\* A call takes the first free slot: the slots are interchangeable, so this
\* leaves out only behaviours that differ by the names of the slots.
FreeSlot(t) ==
    /\ tasks[t].op = "idle"
    /\ \A s \in Tasks : s < t => tasks[s].op # "idle"

(***************************************************************************)
(* Time passes.                                                            *)
(***************************************************************************)
Tick ==
    /\ clock < MaxTime
    /\ clock' = clock + 1
    /\ UNCHANGED <<db, users, posts, cache, tasks, repairs, returned,
                     nUpdates, storeFailed,
                     nComments,
                     session>>

(***************************************************************************)
(* getUser(uid)                                                            *)
(***************************************************************************)
\* Lines 15-18: the cache check; a hit returns at once, a miss calls
\* getUserProfile, whose checkFirestore throws when db is null.
GetUserStart(t, uid) ==
    /\ FreeSlot(t)
    /\ LET base == [IdleTask EXCEPT !.op = "getUser", !.uid = uid,
                       !.age = AgeOf(cache, uid, clock),
                       !.minRev = ReturnedRev(returned, uid)]
       IN  tasks' = [tasks EXCEPT ![t] =
              IF CacheHit(cache, uid, clock)
              THEN [base EXCEPT !.pc = "done", !.user = cache[uid].user]
              ELSE IF ~db THEN [base EXCEPT !.pc = "failed", !.lookups = 1]
              ELSE [base EXCEPT !.pc = "lookup", !.lookups = 1]]
    /\ UNCHANGED <<db, users, posts, cache, clock, repairs, returned,
                     nUpdates, storeFailed,
                     nComments,
                     session>>

\* A faulty variant of GetUserLookup that answers a failed round trip with
\* the entry the map still holds; C23_ReadErrorsPropagate tells it from the
\* code, which has no catch.
GetUserLookup_Fallback(t) ==
    /\ tasks[t].op = "getUser" /\ tasks[t].pc = "lookup"
    /\ \E ok \in BOOLEAN :
          /\ tasks' = [tasks EXCEPT ![t] =
                IF ok
                THEN [@ EXCEPT !.pc = "resume",
                               !.user = UserDoc(users, tasks[t].uid)]
                ELSE IF tasks[t].uid \in DOMAIN cache
                THEN [@ EXCEPT !.pc = "done",
                               !.user = cache[tasks[t].uid].user]
                ELSE [@ EXCEPT !.pc = "failed"]]
          /\ storeFailed' = (storeFailed \/ ~ok)
    /\ UNCHANGED <<db, users, posts, cache, clock, repairs, returned,
                     nUpdates,
                     nComments,
                     session>>

\* getUserProfile: getDoc on the server reads the document, or the round
\* trip fails.
GetUserLookup(t) ==
    /\ tasks[t].op = "getUser" /\ tasks[t].pc = "lookup"
    /\ \E ok \in BOOLEAN :
          /\ tasks' = [tasks EXCEPT ![t] =
                IF ok
                THEN [@ EXCEPT !.pc = "resume",
                               !.user = UserDoc(users, tasks[t].uid)]
                ELSE [@ EXCEPT !.pc = "failed"]]
          /\ storeFailed' = (storeFailed \/ ~ok)
    /\ UNCHANGED <<db, users, posts, cache, clock, repairs, returned,
                     nUpdates,
                     nComments,
                     session>>

\* A faulty variant of GetUserResume that stores whatever getUserProfile
\* returned, null included; C22_NotFoundIsAbsence tells it from the code's
\* if (user).
GetUserResume_CacheNull(t) ==
    /\ tasks[t].op = "getUser" /\ tasks[t].pc = "resume"
    /\ cache' = setUser(cache, tasks[t].uid, tasks[t].user, clock)
    /\ tasks' = [tasks EXCEPT ![t].pc = "done"]
    /\ UNCHANGED <<db, users, posts, clock, repairs, returned, nUpdates,
                     storeFailed,
                     nComments,
                     session>>

\* Lines 22-25: after the await, a found profile is stored and returned.
GetUserResume(t) ==
    /\ tasks[t].op = "getUser" /\ tasks[t].pc = "resume"
    /\ cache' = IF tasks[t].user # NoProfile
                THEN setUser(cache, tasks[t].uid, tasks[t].user, clock)
                ELSE cache
    /\ tasks' = [tasks EXCEPT ![t].pc = "done"]
    /\ UNCHANGED <<db, users, posts, clock, repairs, returned, nUpdates,
                     storeFailed,
                     nComments,
                     session>>

(***************************************************************************)
(* userCache.setUser(uid, user), called on its own                         *)
(***************************************************************************)
\* The profile objects a caller may hold for uid: the one of the store and an
\* edited copy.
ProfilesOf(uid) ==
    {UserDoc(users, uid),
     [UserDoc(users, uid) EXCEPT !.displayName = "n1", !.rev = @ + 1]}

\* The public method, synchronous, called with the profile of the store or
\* with the edited copy.
SetUserCall(uid, edited) ==
    /\ \E user \in ProfilesOf(uid) :
          /\ (user = UserDoc(users, uid)) = ~edited
          /\ cache' = setUser(cache, uid, user, clock)
    /\ UNCHANGED <<db, users, posts, clock, tasks, repairs, returned,
                     nUpdates, storeFailed, nComments,
                     session>>

(***************************************************************************)
(* invalidateUserCache(uid), called on its own                             *)
(***************************************************************************)
\* The exported helper: userCache.invalidateUser(uid), synchronous.  ages keeps
\* the timestamps of the entries the call found.
InvalidateUserCache(t, uid) ==
    /\ FreeSlot(t)
    /\ cache' = invalidateUser(cache, uid)
    /\ tasks' = [tasks EXCEPT ![t] =
          [IdleTask EXCEPT !.op = "invalidate", !.pc = "done", !.uid = uid,
                           !.ages = [u \in DOMAIN cache |-> cache[u].timestamp]]]
    /\ UNCHANGED <<db, users, posts, clock, repairs, returned, nUpdates,
                     storeFailed,
                     nComments,
                     session>>

(***************************************************************************)
(* getUsers(uids)                                                          *)
(***************************************************************************)
\* A faulty variant of Uncached that fetches every requested id;
\* C8_FreshIdsNotFetched tells it from the code's scan.
Uncached_All(c, uids, now) == uids

\* The uids of the request that the scan of lines 62-69 pushes to uncachedUids.
Uncached(c, uids, now) ==
    SelectSeq(uids, LAMBDA u : ~CacheHit(c, u, now))

\* Lines 58-72 and, on a miss, batchGetUsers up to its first await.
GetUsersBegin(t, uids) ==
    /\ FreeSlot(t)
    /\ LET unc  == Uncached(cache, uids, clock)
           hits == {u \in Range(uids) : CacheHit(cache, u, clock)}
           base == [IdleTask EXCEPT !.op = "getUsers", !.uids = uids,
                       !.result = [u \in hits |-> cache[u].user],
                       !.uncached = unc,
                       !.ages = [u \in Range(uids) |-> AgeOf(cache, u, clock)],
                       !.revs = [u \in Range(uids) |-> ReturnedRev(returned, u)]]
       IN  tasks' = [tasks EXCEPT ![t] =
              IF Len(unc) = 0 THEN [base EXCEPT !.pc = "done"]
              ELSE IF ~db THEN [base EXCEPT !.pc = "failed"]
              ELSE [base EXCEPT !.pc = "query", !.next = 1]]
    /\ UNCHANGED <<db, users, posts, cache, clock, repairs, returned,
                     nUpdates, storeFailed,
                     nComments,
                     session>>

\* A faulty variant of GetUsersQuery that caches the profiles of a slice as
\* soon as its query returns; C33_FailedGetUsersLeavesCache tells it from the
\* code, which caches after batchGetUsers has returned.
GetUsersQuery_CacheEach(t) ==
    /\ tasks[t].op = "getUsers" /\ tasks[t].pc = "query"
    /\ LET batches == BatchesFrom(tasks[t].uncached, 0)
           batch   == batches[tasks[t].next]
       IN  \E ok \in BOOLEAN :
             /\ tasks' = [tasks EXCEPT ![t] =
                  IF ok
                  THEN [@ EXCEPT
                          !.fetched = MapSetAll(@, QueryUsers(users, batch)),
                          !.calls = Append(@, batch),
                          !.next = @ + 1,
                          !.pc = IF tasks[t].next = Len(batches)
                                 THEN "fill" ELSE "query"]
                  ELSE [@ EXCEPT !.calls = Append(@, batch), !.pc = "failed"]]
             /\ cache' = IF ok
                         THEN setUsers(cache, QueryUsers(users, batch), clock)
                         ELSE cache
             /\ storeFailed' = (storeFailed \/ ~ok)
    /\ UNCHANGED <<db, users, posts, clock, repairs, returned,
                     nUpdates,
                     nComments,
                     session>>

\* Lines 97-113: one 'in' query per slice; its documents go into the result
\* map of batchGetUsers.  A failed query rejects the whole call.
GetUsersQuery(t) ==
    /\ tasks[t].op = "getUsers" /\ tasks[t].pc = "query"
    /\ LET batches == BatchesFrom(tasks[t].uncached, 0)
           batch   == batches[tasks[t].next]
       IN  \E ok \in BOOLEAN :
             /\ tasks' = [tasks EXCEPT ![t] =
                  IF ok
                  THEN [@ EXCEPT
                          !.fetched = MapSetAll(@, QueryUsers(users, batch)),
                          !.calls = Append(@, batch),
                          !.next = @ + 1,
                          !.pc = IF tasks[t].next = Len(batches)
                                 THEN "fill" ELSE "query"]
                  ELSE [@ EXCEPT !.calls = Append(@, batch), !.pc = "failed"]]
             /\ storeFailed' = (storeFailed \/ ~ok)
    /\ UNCHANGED <<db, users, posts, cache, clock, repairs, returned,
                     nUpdates,
                     nComments,
                     session>>

\* Lines 74-80: every fetched profile is added to the result and cached.
GetUsersFill(t) ==
    /\ tasks[t].op = "getUsers" /\ tasks[t].pc = "fill"
    /\ LET f == tasks[t].fetched
           got == {f[i].uid : i \in 1..Len(f)}
           prof(u) == f[CHOOSE i \in 1..Len(f) : f[i].uid = u]
       IN  /\ tasks' = [tasks EXCEPT ![t] =
                 [@ EXCEPT !.pc = "done",
                    !.result = [u \in DOMAIN @ \cup got |->
                                  IF u \in got THEN prof(u) ELSE @[u]]]]
           /\ cache' = setUsers(cache, f, clock)
    /\ UNCHANGED <<db, users, posts, clock, repairs, returned, nUpdates,
                     storeFailed,
                     nComments,
                     session>>

\* The caller takes the result (or the rejection); the slot is free again.
Return(t) ==
    /\ tasks[t].pc \in {"done", "failed"}
    /\ tasks' = [tasks EXCEPT ![t] = IdleTask]
    /\ UNCHANGED <<db, users, posts, cache, clock, repairs, returned,
                     nUpdates, storeFailed,
                     nComments,
                     session>>

(***************************************************************************)
(* getPosts() and its enrichPostsWithUserData(posts)                       *)
(***************************************************************************)
\* checkFirestore, then the query for all posts is sent.
GetPostsStart(t) ==
    /\ FreeSlot(t)
    /\ tasks' = [tasks EXCEPT ![t] =
          [IdleTask EXCEPT !.op = "getPosts",
                           !.pc = IF db THEN "posts" ELSE "failed"]]
    /\ UNCHANGED <<db, users, posts, cache, clock, repairs, returned,
                     nUpdates, storeFailed,
                     nComments,
                     session>>

\* getDocs(q) on the server reads the collection, or the round trip fails.
GetPostsQuery(t) ==
    /\ tasks[t].op = "getPosts" /\ tasks[t].pc = "posts"
    /\ \E ok \in BOOLEAN :
          /\ tasks' = [tasks EXCEPT ![t] =
                IF ok
                THEN [@ EXCEPT !.pc = "enrich", !.records = PostObjects(posts)]
                ELSE [@ EXCEPT !.pc = "failed"]]
          /\ storeFailed' = (storeFailed \/ ~ok)
    /\ UNCHANGED <<db, users, posts, cache, clock, repairs, returned,
                     nUpdates,
                     nComments,
                     session>>

\* Lines 360-388: enrichPostsWithUserData is called with the posts read; it
\* collects the author ids and calls getCachedUsers, which scans the cache.
\* With every author cached the posts are mapped and returned.
EnrichBegin(t) ==
    /\ tasks[t].op = "getPosts" /\ tasks[t].pc = "enrich"
    /\ LET uids == AuthorIds(<<>>, tasks[t].records)
           unc  == Uncached(cache, uids, clock)
           hits == {u \in Range(uids) : CacheHit(cache, u, clock)}
           res  == [u \in hits |-> cache[u].user]
           base == [tasks[t] EXCEPT
                       !.uids = uids, !.result = res, !.uncached = unc,
                       !.ages = [u \in Range(uids) |-> AgeOf(cache, u, clock)],
                       !.revs = [u \in Range(uids) |-> ReturnedRev(returned, u)]]
       IN  tasks' = [tasks EXCEPT ![t] =
              IF Len(unc) = 0
              THEN [base EXCEPT !.pc = "done",
                                !.enriched = EnrichPosts(tasks[t].records, res)]
              ELSE [base EXCEPT !.pc = "query", !.next = 1]]
    /\ UNCHANGED <<db, users, posts, cache, clock, repairs, returned,
                     nUpdates, storeFailed,
                     nComments,
                     session>>

\* batchGetUsers for the authors that were not cached: one 'in' query per
\* slice; a failed query rejects getPosts.
EnrichQuery(t) ==
    /\ tasks[t].op = "getPosts" /\ tasks[t].pc = "query"
    /\ LET batches == BatchesFrom(tasks[t].uncached, 0)
           batch   == batches[tasks[t].next]
       IN  \E ok \in BOOLEAN :
             /\ tasks' = [tasks EXCEPT ![t] =
                  IF ok
                  THEN [@ EXCEPT
                          !.fetched = MapSetAll(@, QueryUsers(users, batch)),
                          !.calls = Append(@, batch),
                          !.next = @ + 1,
                          !.pc = IF tasks[t].next = Len(batches)
                                 THEN "fill" ELSE "query"]
                  ELSE [@ EXCEPT !.calls = Append(@, batch), !.pc = "failed"]]
             /\ storeFailed' = (storeFailed \/ ~ok)
    /\ UNCHANGED <<db, users, posts, cache, clock, repairs, returned,
                     nUpdates,
                     nComments,
                     session>>

\* Lines 74-80 of getUsers, then lines 391-416: the fetched profiles are
\* cached and the posts are mapped with all the profiles resolved.
EnrichFill(t) ==
    /\ tasks[t].op = "getPosts" /\ tasks[t].pc = "fill"
    /\ LET f == tasks[t].fetched
           got == {f[i].uid : i \in 1..Len(f)}
           prof(u) == f[CHOOSE i \in 1..Len(f) : f[i].uid = u]
           res == [u \in DOMAIN tasks[t].result \cup got |->
                     IF u \in got THEN prof(u) ELSE tasks[t].result[u]]
       IN  /\ tasks' = [tasks EXCEPT ![t] =
                 [@ EXCEPT !.pc = "done", !.result = res,
                           !.enriched = EnrichPosts(tasks[t].records, res)]]
           /\ cache' = setUsers(cache, f, clock)
    /\ UNCHANGED <<db, users, posts, clock, repairs, returned, nUpdates,
                     storeFailed,
                     nComments,
                     session>>

(***************************************************************************)
(* addComment, deleteComment and deletePost, as the Post component calls   *)
(* them for the signed-in user who (0 is a visitor who is not signed in).  *)
(***************************************************************************)
\* The ids of a sequence of comments.
IdsOf(comments) == {comments[i].id : i \in 1..Len(comments)}

\* The comments that createPost and addComment have written before the first
\* state have the ids 1..InitialComments.
InitialComments == 4

\* A write of a post by a call that is not a repair: every repair in flight
\* has had another writer.
OtherWriter ==
    [q \in Repairs |->
        IF repairs[q].pc # "idle" THEN [repairs[q] EXCEPT !.dirty = TRUE]
        ELSE repairs[q]]

\* A call on a post that has returned or thrown: the array it read is gone.
Ended(task, pc) == [task EXCEPT !.pc = pc, !.comments = <<>>]

\* handleComment of Post: a signed-in user with a loaded profile; addComment
\* runs checkFirestore and sends addDoc for the comment document, whose id the
\* client has generated.
AddCommentStart(t, who, pid) ==
    /\ FreeSlot(t)
    /\ who \in Users /\ users[who] # NoProfile
    /\ pid \in DOMAIN posts
    /\ InitialComments + nComments < MaxCommentId
    /\ nComments' = nComments + 1
    /\ tasks' = [tasks EXCEPT ![t] =
          [IdleTask EXCEPT !.op = "addComment", !.uid = who, !.post = pid,
                           !.user = users[who],
                           !.next = InitialComments + nComments + 1,
                           !.pc = IF db THEN "addDoc" ELSE "failed"]]
    /\ UNCHANGED <<db, users, posts, cache, clock, repairs, returned,
                     nUpdates, storeFailed,
                     session>>

\* Lines 478-492: addDoc has written the comment document; getDoc of the post
\* is sent.
AddCommentDoc(t) ==
    /\ tasks[t].op = "addComment" /\ tasks[t].pc = "addDoc"
    /\ \E ok \in BOOLEAN :
          /\ tasks' = [tasks EXCEPT ![t] =
                IF ok
                THEN [@ EXCEPT !.pc = "read",
                         !.comment =
                            [id |-> tasks[t].next,
                             authorId |-> tasks[t].user.uid,
                             authorName |-> tasks[t].user.displayName,
                             authorPhotoURL |-> tasks[t].user.photoURL]]
                ELSE Ended(@, "failed")]
          /\ storeFailed' = (storeFailed \/ ~ok)
    /\ UNCHANGED <<db, users, posts, cache, clock, repairs, returned,
                     nUpdates,
                     nComments,
                     session>>

\* Lines 492-502: the post is read; the comment is pushed on the array read
\* and updateDoc is sent with the whole array.  A post that is gone ends the
\* call.
AddCommentRead(t) ==
    /\ tasks[t].op = "addComment" /\ tasks[t].pc = "read"
    /\ \E ok \in BOOLEAN :
          /\ tasks' = [tasks EXCEPT ![t] =
                IF ~ok THEN Ended(@, "failed")
                ELSE IF tasks[t].post \in DOMAIN posts
                THEN [@ EXCEPT !.pc = "write",
                         !.comments = Append(posts[tasks[t].post].comments,
                                             tasks[t].comment)]
                ELSE Ended(@, "done")]
          /\ storeFailed' = (storeFailed \/ ~ok)
    /\ UNCHANGED <<db, users, posts, cache, clock, repairs, returned,
                     nUpdates,
                     nComments,
                     session>>

\* updateDoc(postRef, {comments, updatedAt}) on the server; it fails for a
\* post that is gone.
AddCommentWrite(t) ==
    /\ tasks[t].op = "addComment" /\ tasks[t].pc = "write"
    /\ \E ok \in BOOLEAN :
          IF ok /\ tasks[t].post \in DOMAIN posts
          THEN /\ posts' = [posts EXCEPT
                              ![tasks[t].post].comments = tasks[t].comments]
               /\ repairs' = OtherWriter
               /\ tasks' = [tasks EXCEPT ![t] = Ended(@, "done")]
               /\ UNCHANGED storeFailed
          ELSE /\ tasks' = [tasks EXCEPT ![t] = Ended(@, "failed")]
               /\ storeFailed' = TRUE
               /\ UNCHANGED <<posts, repairs>>
    /\ UNCHANGED <<db, users, cache, clock, returned, nUpdates,
                     nComments,
                     session>>

\* The comment of post pid with id cid, NoComment when there is none.
CommentOf(pid, cid) ==
    IF pid \in DOMAIN posts /\ cid \in IdsOf(posts[pid].comments)
    THEN posts[pid].comments[CHOOSE i \in 1..Len(posts[pid].comments) :
                                posts[pid].comments[i].id = cid]
    ELSE NoComment

\* canDeleteComment of Post: the button is shown to the author of the comment
\* and to the author of the post.
canDeleteComment(who, pid, cid) ==
    /\ who \in Users
    /\ CommentOf(pid, cid) # NoComment
    /\ who = CommentOf(pid, cid).authorId \/ who = posts[pid].authorId

\* handleDeleteComment of Post; deleteComment runs checkFirestore and sends
\* getDoc of the post.
DeleteCommentStart(t, who, pid, cid) ==
    /\ FreeSlot(t)
    /\ canDeleteComment(who, pid, cid)
    /\ tasks' = [tasks EXCEPT ![t] =
          [IdleTask EXCEPT !.op = "deleteComment", !.uid = who, !.post = pid,
                           !.comment = CommentOf(pid, cid),
                           !.pc = IF db THEN "read" ELSE "failed"]]
    /\ UNCHANGED <<db, users, posts, cache, clock, repairs, returned,
                     nUpdates, storeFailed,
                     nComments,
                     session>>

\* Lines 512-521: the post is read; the array read is filtered and updateDoc
\* is sent with it.  For a post that is gone the comment document is deleted
\* next.
DeleteCommentRead(t) ==
    /\ tasks[t].op = "deleteComment" /\ tasks[t].pc = "read"
    /\ \E ok \in BOOLEAN :
          /\ tasks' = [tasks EXCEPT ![t] =
                IF ~ok THEN Ended(@, "failed")
                ELSE IF tasks[t].post \in DOMAIN posts
                THEN [@ EXCEPT !.pc = "write",
                         !.comments =
                            SelectSeq(posts[tasks[t].post].comments,
                                      LAMBDA c : c.id # tasks[t].comment.id)]
                ELSE [@ EXCEPT !.pc = "delete"]]
          /\ storeFailed' = (storeFailed \/ ~ok)
    /\ UNCHANGED <<db, users, posts, cache, clock, repairs, returned,
                     nUpdates,
                     nComments,
                     session>>

\* updateDoc(postRef, {comments, updatedAt}) on the server, then
\* deleteDocument("comments", commentId) is sent.
DeleteCommentWrite(t) ==
    /\ tasks[t].op = "deleteComment" /\ tasks[t].pc = "write"
    /\ \E ok \in BOOLEAN :
          IF ok /\ tasks[t].post \in DOMAIN posts
          THEN /\ posts' = [posts EXCEPT
                              ![tasks[t].post].comments = tasks[t].comments]
               /\ repairs' = OtherWriter
               /\ tasks' = [tasks EXCEPT ![t].pc = "delete"]
               /\ UNCHANGED storeFailed
          ELSE /\ tasks' = [tasks EXCEPT ![t] = Ended(@, "failed")]
               /\ storeFailed' = TRUE
               /\ UNCHANGED <<posts, repairs>>
    /\ UNCHANGED <<db, users, cache, clock, returned, nUpdates,
                     nComments,
                     session>>

\* deleteDoc of the comment document, which nothing reads.
DeleteCommentDoc(t) ==
    /\ tasks[t].op = "deleteComment" /\ tasks[t].pc = "delete"
    /\ \E ok \in BOOLEAN :
          /\ tasks' = [tasks EXCEPT ![t] =
                Ended(@, IF ok THEN "done" ELSE "failed")]
          /\ storeFailed' = (storeFailed \/ ~ok)
    /\ UNCHANGED <<db, users, posts, cache, clock, repairs, returned,
                     nUpdates,
                     nComments,
                     session>>

\* canDelete of Post: the button is shown to the author of the post.
canDelete(who, pid) ==
    /\ who \in Users
    /\ pid \in DOMAIN posts
    /\ who = posts[pid].authorId

\* handleDeletePost of Post; deletePost sends deleteDoc of the post.
DeletePostStart(t, who, pid) ==
    /\ FreeSlot(t)
    /\ canDelete(who, pid)
    /\ tasks' = [tasks EXCEPT ![t] =
          [IdleTask EXCEPT !.op = "deletePost", !.uid = who, !.post = pid,
                           !.pc = IF db THEN "delete" ELSE "failed"]]
    /\ UNCHANGED <<db, users, posts, cache, clock, repairs, returned,
                     nUpdates, storeFailed,
                     nComments,
                     session>>

\* deleteDoc(doc(db, "posts", postId)) on the server.
DeletePostDoc(t) ==
    /\ tasks[t].op = "deletePost" /\ tasks[t].pc = "delete"
    /\ \E ok \in BOOLEAN :
          IF ok
          THEN /\ posts' = [p \in DOMAIN posts \ {tasks[t].post} |-> posts[p]]
               /\ repairs' = OtherWriter
               /\ tasks' = [tasks EXCEPT ![t] = Ended(@, "done")]
               /\ UNCHANGED storeFailed
          ELSE /\ tasks' = [tasks EXCEPT ![t] = Ended(@, "failed")]
               /\ storeFailed' = TRUE
               /\ UNCHANGED <<posts, repairs>>
    /\ UNCHANGED <<db, users, cache, clock, returned, nUpdates,
                     nComments,
                     session>>

(***************************************************************************)
(* toggleLike(postId, userId)                                              *)
(***************************************************************************)
\* handleLike of Post.tsx calls it for the signed-in user; checkFirestore,
\* then getDoc is sent.
ToggleLikeStart(t, who, pid) ==
    /\ FreeSlot(t)
    /\ who \in Users
    /\ tasks' = [tasks EXCEPT ![t] =
          [IdleTask EXCEPT !.op = "toggleLike", !.uid = who, !.post = pid,
                           !.pc = IF db THEN "read" ELSE "failed"]]
    /\ UNCHANGED <<db, users, posts, cache, clock, repairs, returned,
                     nUpdates, storeFailed, nComments, session>>

\* getDoc(postRef) on the server: the likes of the post as they are now; for
\* a post that is gone the call returns.
ToggleLikeRead(t) ==
    /\ tasks[t].op = "toggleLike" /\ tasks[t].pc = "read"
    /\ \E ok \in BOOLEAN :
          /\ tasks' = [tasks EXCEPT ![t] =
                IF ~ok THEN [@ EXCEPT !.pc = "failed"]
                ELSE IF tasks[t].post \in DOMAIN posts
                THEN [@ EXCEPT !.pc = "write",
                               !.likes = posts[tasks[t].post].likes]
                ELSE [@ EXCEPT !.pc = "done"]]
          /\ storeFailed' = (storeFailed \/ ~ok)
    /\ UNCHANGED <<db, users, posts, cache, clock, repairs, returned,
                     nUpdates, nComments, session>>

\* Lines 461-471: the list that is written, computed from the list that was
\* read: without the user when it included the user, with the user appended
\* otherwise.
LikesAfter(likes, who) ==
    IF who \in Range(likes)
    THEN SelectSeq(likes, LAMBDA id : id # who)
    ELSE Append(likes, who)

\* updateDoc(postRef, {likes}) on the server replaces the list; it fails for
\* a post that is gone.
ToggleLikeWrite(t) ==
    /\ tasks[t].op = "toggleLike" /\ tasks[t].pc = "write"
    /\ \E ok \in BOOLEAN :
          IF ok /\ tasks[t].post \in DOMAIN posts
          THEN /\ posts' = [posts EXCEPT ![tasks[t].post].likes =
                              LikesAfter(tasks[t].likes, tasks[t].uid)]
               /\ repairs' = OtherWriter
               /\ tasks' = [tasks EXCEPT ![t].pc = "done"]
               /\ UNCHANGED storeFailed
          ELSE /\ tasks' = [tasks EXCEPT ![t].pc = "failed"]
               /\ storeFailed' = TRUE
               /\ UNCHANGED <<posts, repairs>>
    /\ UNCHANGED <<db, users, cache, clock, returned, nUpdates,
                     nComments, session>>

(***************************************************************************)
(* formatTimeAgo(date), for a valid date.  diffInSeconds is the floor of   *)
(* the age in milliseconds over 1000: the whole seconds since the date,    *)
(* negative for a date in the future.                                      *)
(***************************************************************************)
\* Lines 33-63 of utils.ts.
formatTimeAgo(diffInSeconds) ==
    LET diffInMinutes == diffInSeconds \div 60
        diffInHours   == diffInMinutes \div 60
        diffInDays    == diffInHours \div 24
        diffInWeeks   == diffInDays \div 7
        diffInMonths  == diffInDays \div 30
        diffInYears   == diffInDays \div 365
    IN  IF diffInSeconds < 60 THEN JustNow
        ELSE IF diffInMinutes < 60 THEN Ago(diffInMinutes, "minute")
        ELSE IF diffInHours < 24 THEN Ago(diffInHours, "hour")
        ELSE IF diffInDays < 7 THEN Ago(diffInDays, "day")
        ELSE IF diffInWeeks < 4 THEN Ago(diffInWeeks, "week")
        ELSE IF diffInMonths < 12 THEN Ago(diffInMonths, "month")
        ELSE Ago(diffInYears, "year")

\* Post.tsx renders formatTimeAgo(post.createdAt) for a post of the given age.
FormatTimeAgo(t, diffInSeconds) ==
    /\ FreeSlot(t)
    /\ tasks' = [tasks EXCEPT ![t] =
          [IdleTask EXCEPT !.op = "formatTimeAgo", !.pc = "done",
                           !.diff = diffInSeconds,
                           !.text = formatTimeAgo(diffInSeconds)]]
    /\ UNCHANGED <<db, users, posts, cache, clock, repairs, returned,
                     nUpdates, storeFailed, nComments, session>>

(***************************************************************************)
(* Sign-out: logoutUser of firebaseUtils and signOutUser of AuthContext,   *)
(* the one the navigation bar calls.  Firebase Auth is configured with     *)
(* Firestore: auth is null exactly when db is.                             *)
(***************************************************************************)
\* The timestamps of the entries of c, by key.
Timestamps(c) == [u \in DOMAIN c |-> c[u].timestamp]

\* A read of the cache that is awaiting the store.
Awaiting(task) ==
    /\ task.op \in {"getUser", "getUsers", "getPosts"}
    /\ task.pc \notin {"done", "failed"}

\* logoutUser: checkFirebaseAuth, then the cache is cleared and signOut(auth)
\* is sent.  ages keeps the entries the call left in the map.
LogoutUser(t) ==
    /\ FreeSlot(t)
    /\ cache' = IF db THEN clearCache(cache) ELSE cache
    /\ tasks' = [s \in Tasks |->
          IF s = t
          THEN [IdleTask EXCEPT !.op = "logoutUser",
                                !.pc = IF db THEN "signOut" ELSE "failed",
                                !.ages = Timestamps(cache')]
          ELSE IF db /\ Awaiting(tasks[s])
          THEN [tasks[s] EXCEPT !.cleared = TRUE]
          ELSE tasks[s]]
    /\ UNCHANGED <<db, users, posts, clock, repairs, returned, nUpdates,
                     storeFailed,
                     nComments,
                     session>>

\* signOutUser: with auth null it logs and returns; else firebaseSignOut(auth)
\* is sent.  ages keeps the entries the call left in the map.
SignOutUser(t) ==
    /\ FreeSlot(t)
    /\ tasks' = [tasks EXCEPT ![t] =
          [IdleTask EXCEPT !.op = "signOutUser",
                           !.pc = IF db THEN "signOut" ELSE "failed",
                           !.ages = Timestamps(cache)]]
    /\ UNCHANGED <<db, users, posts, cache, clock, repairs, returned,
                     nUpdates, storeFailed,
                     nComments,
                     session>>

\* signOut of Firebase Auth ends the session, or fails: logoutUser rejects,
\* signOutUser logs the error.  The auth state listener of AuthContext resets
\* the user and the profile of the context and nothing else.
SignedOut(t) ==
    /\ tasks[t].op \in {"logoutUser", "signOutUser"}
    /\ tasks[t].pc = "signOut"
    /\ \E ok \in BOOLEAN :
          tasks' = [tasks EXCEPT ![t].pc = IF ok THEN "done" ELSE "failed"]
    /\ UNCHANGED <<db, users, posts, cache, clock, repairs, returned,
                     nUpdates, storeFailed,
                     nComments,
                     session>>

(***************************************************************************)
(* AuthProvider: the listener of onAuthStateChanged.  It is registered     *)
(* only when auth is not null; every call of it is an async function of    *)
(* its own, and nothing orders the calls.                                  *)
(***************************************************************************)
\* Lines 41-46: the listener is called with the user that signed in: setUser,
\* then getUserProfile is sent.
AuthSignedIn(t, uid) ==
    /\ FreeSlot(t)
    /\ db
    /\ uid # session.user
    /\ session' = [session EXCEPT !.user = uid]
    /\ tasks' = [tasks EXCEPT ![t] =
          [IdleTask EXCEPT !.op = "authChanged", !.uid = uid, !.pc = "lookup"]]
    /\ UNCHANGED <<db, users, posts, cache, clock, repairs, returned,
                     nUpdates, storeFailed, nComments>>

\* Lines 46-49: getDoc on the server.  A profile that exists is kept for the
\* continuation; without one createUserProfile is called; a failed round trip
\* is caught and logged, and the listener ends.
AuthProfileLookup(t) ==
    /\ tasks[t].op = "authChanged" /\ tasks[t].pc = "lookup"
    /\ \E ok \in BOOLEAN :
          /\ tasks' = [tasks EXCEPT ![t] =
                IF ~ok THEN [@ EXCEPT !.pc = "done"]
                ELSE IF UserDoc(users, tasks[t].uid) # NoProfile
                THEN [@ EXCEPT !.pc = "resume",
                               !.user = UserDoc(users, tasks[t].uid)]
                ELSE [@ EXCEPT !.pc = "create"]]
          /\ storeFailed' = (storeFailed \/ ~ok)
    /\ UNCHANGED <<db, users, posts, cache, clock, repairs, returned,
                     nUpdates, nComments, session>>

\* createUserProfile: setDoc on the server writes the profile built from the
\* account; a failed round trip is caught and logged.
AuthProfileCreate(t) ==
    /\ tasks[t].op = "authChanged" /\ tasks[t].pc = "create"
    /\ \E ok \in BOOLEAN :
          /\ users' = IF ok
                      THEN [users EXCEPT ![tasks[t].uid] =
                              InitialProfile(tasks[t].uid)]
                      ELSE users
          /\ tasks' = [tasks EXCEPT ![t] =
                IF ok
                THEN [@ EXCEPT !.pc = "resume",
                               !.user = InitialProfile(tasks[t].uid)]
                ELSE [@ EXCEPT !.pc = "done"]]
          /\ storeFailed' = (storeFailed \/ ~ok)
    /\ UNCHANGED <<db, posts, cache, clock, repairs, returned,
                     nUpdates, nComments, session>>

\* Line 50: after the await, setUserProfile(profile).
AuthProfileResume(t) ==
    /\ tasks[t].op = "authChanged" /\ tasks[t].pc = "resume"
    /\ session' = [session EXCEPT !.userProfile = tasks[t].user]
    /\ tasks' = [tasks EXCEPT ![t].pc = "done"]
    /\ UNCHANGED <<db, users, posts, cache, clock, repairs, returned,
                     nUpdates, storeFailed, nComments>>

\* Lines 42 and 56-57: the listener is called with null after a sign-out:
\* setUser(null) and setUserProfile(null), with no await.
AuthSignedOut ==
    /\ db
    /\ session.user # 0
    /\ session' = SignedOutSession
    /\ UNCHANGED <<db, users, posts, cache, clock, tasks, repairs, returned,
                     nUpdates, storeFailed, nComments>>

(***************************************************************************)
(* updateUserProfile(uid, data)                                            *)
(***************************************************************************)
\* An updateUserProfile call that has returned or thrown: its locals are gone.
Settled(uid, pc) == [IdleTask EXCEPT !.op = "update", !.uid = uid, !.pc = pc]

\* checkFirestore, then updateDoc is sent.  The call takes the next repair slot.
UpdateStart(t, uid, data, limit) ==
    /\ FreeSlot(t)
    /\ nUpdates < limit
    /\ nUpdates' = nUpdates + 1
    /\ tasks' = [tasks EXCEPT ![t] =
          IF db
          THEN [IdleTask EXCEPT !.op = "update", !.uid = uid, !.data = data,
                                !.next = nUpdates + 1, !.pc = "write"]
          ELSE Settled(uid, "failed")]
    /\ UNCHANGED <<db, users, posts, cache, clock, repairs, returned,
                     storeFailed,
                     nComments,
                     session>>

\* updateDoc on the server: it fails for a missing document or a failed round
\* trip.  After it, data with a display name or a photo URL sends the re-read
\* of the profile; other data goes straight to the invalidation.
UpdateWrite(t) ==
    /\ tasks[t].op = "update" /\ tasks[t].pc = "write"
    /\ LET uid == tasks[t].uid
           data == tasks[t].data
       IN  \E ok \in BOOLEAN :
             IF ok /\ users[uid] # NoProfile
             THEN /\ users' = [users EXCEPT ![uid] = MergeProfile(@, data)]
                  /\ tasks' = [tasks EXCEPT ![t] =
                        [@ EXCEPT !.wrote = users[uid].rev + 1,
                           !.pc = IF Truthy(data, "displayName")
                                     \/ Truthy(data, "photoURL")
                                  THEN "reread" ELSE "finish"]]
                  /\ UNCHANGED storeFailed
             ELSE /\ tasks' = [tasks EXCEPT ![t] = Settled(uid, "failed")]
                  /\ storeFailed' = TRUE
                  /\ UNCHANGED users
    /\ UNCHANGED <<db, posts, cache, clock, repairs, returned, nUpdates,
                     nComments,
                     session>>

\* getUserProfile(uid) on the server; a failed round trip rejects the update
\* before the cache is invalidated.
UpdateReread(t) ==
    /\ tasks[t].op = "update" /\ tasks[t].pc = "reread"
    /\ \E ok \in BOOLEAN :
          /\ tasks' = [tasks EXCEPT ![t] =
                IF ok
                THEN [@ EXCEPT !.pc = "finish",
                               !.user = UserDoc(users, tasks[t].uid)]
                ELSE Settled(tasks[t].uid, "failed")]
          /\ storeFailed' = (storeFailed \/ ~ok)
    /\ UNCHANGED <<db, users, posts, cache, clock, repairs, returned,
                     nUpdates,
                     nComments,
                     session>>

\* A faulty variant of StartedRepair in which the caller has waited for the
\* posts query of the repair; C17_RepairDetached tells it from the code's
\* call without await.
StartedRepair_Awaited(uid, name, photo) ==
    StageFrom([IdleRepair EXCEPT !.pc = "query", !.uid = uid, !.name = name,
                                 !.photo = photo, !.i = 1,
                                 !.snapshot = QueryPosts(posts, uid)])

\* The repair as updateUserContentReferences leaves it at its first await:
\* the batch is created and the query for the posts of uid is sent.
StartedRepair(uid, name, photo) ==
    [IdleRepair EXCEPT !.pc = "query", !.uid = uid, !.name = name,
                       !.photo = photo, !.i = 1]

\* Lines 312-325 of firebaseUtils: the repair is started and not awaited, the
\* cache entry is removed and the call returns.
UpdateFinish(t) ==
    /\ tasks[t].op = "update" /\ tasks[t].pc = "finish"
    /\ LET uid == tasks[t].uid
           u == tasks[t].user
       IN  /\ repairs' = IF u # NoProfile
                         THEN [repairs EXCEPT ![tasks[t].next] =
                                 StartedRepair(uid, u.displayName, u.photoURL)]
                         ELSE repairs
           /\ cache' = invalidateUser(cache, uid)
           /\ returned' = [returned EXCEPT ![uid] =
                             IF tasks[t].wrote > @ THEN tasks[t].wrote ELSE @]
    /\ tasks' = [tasks EXCEPT ![t] = Settled(tasks[t].uid, "done")]
    /\ UNCHANGED <<db, users, posts, clock, nUpdates, storeFailed,
                     nComments,
                     session>>

(***************************************************************************)
(* updateUserContentReferences(uid, newDisplayName, newPhotoURL), detached *)
(***************************************************************************)
\* A faulty variant of CacheAfter that removes the cache entry however the
\* repair ended, as a finally block would; C34_PartialRepairOnFailure tells it
\* from the code, where a throw skips line 183.
CacheAfter_Finally(r) ==
    IF r.pc \in {"done", "failed"} THEN invalidateUser(cache, r.uid) ELSE cache

\* A repair that ran to its end removes the cache entry (line 183).
CacheAfter(r) == IF r.pc = "done" THEN invalidateUser(cache, r.uid) ELSE cache

\* getDocs(postsQuery) on the server, then the loop up to its first commit.
RepairQuery(r) ==
    /\ repairs[r].pc = "query"
    /\ \E ok \in BOOLEAN :
          LET after == IF ok
                       THEN StageFrom([repairs[r] EXCEPT
                              !.snapshot = QueryPosts(posts, repairs[r].uid)])
                       ELSE [repairs[r] EXCEPT !.pc = "failed"]
          IN  /\ repairs' = [repairs EXCEPT ![r] = after]
              /\ cache' = CacheAfter(after)
              /\ storeFailed' = (storeFailed \/ ~ok)
    /\ UNCHANGED <<db, users, posts, clock, tasks, returned, nUpdates,
                     nComments,
                     session>>

\* A faulty variant of RepairCommit in which a repair that failed sends its
\* batch again; C18_RepairFailureContained tells it from the code, which has
\* no retry.
RepairCommit_Retry(r) ==
    /\ repairs[r].pc \in {"commit", "commitLast", "failed"}
    /\ \E ok \in BOOLEAN, capped \in BOOLEAN :
          IF ok /\ (capped => StoreAccepts(repairs[r].ops))
          THEN /\ posts' = ApplyOps(posts, repairs[r].ops)
               /\ repairs' = [repairs EXCEPT ![r].committed = TRUE,
                                             ![r].pc = "done"]
               /\ cache' = invalidateUser(cache, repairs[r].uid)
               /\ UNCHANGED storeFailed
          ELSE /\ repairs' = [repairs EXCEPT ![r].pc = "failed"]
               /\ storeFailed' = TRUE
               /\ UNCHANGED <<posts, cache>>
    /\ UNCHANGED <<db, users, clock, tasks, returned, nUpdates,
                     nComments,
                     session>>

\* batch.commit() on the server: all staged updates are written, or none.
\* Whether the store the application is deployed on enforces the batch limit
\* is not the code's choice: a batch over the limit is rejected by a store
\* that does (capped) and written by one that does not.  After a commit
\* inside the loop the counter is reset and the loop goes on with the same
\* batch object.
RepairCommit(r) ==
    /\ repairs[r].pc \in {"commit", "commitLast"}
    /\ \E ok \in BOOLEAN, capped \in BOOLEAN :
          IF ok /\ (capped => StoreAccepts(repairs[r].ops))
          THEN LET acked == [repairs[r] EXCEPT !.committed = TRUE]
                   after == IF repairs[r].pc = "commit"
                            THEN StageFrom([acked EXCEPT !.batchOperations = 0])
                            ELSE [acked EXCEPT !.pc = "done"]
               IN  /\ posts' = ApplyOps(posts, repairs[r].ops)
                   /\ repairs' = [q \in Repairs |->
                         IF q = r THEN after
                         ELSE IF repairs[q].pc # "idle"
                         THEN [repairs[q] EXCEPT !.dirty = TRUE]
                         ELSE repairs[q]]
                   /\ cache' = CacheAfter(after)
                   /\ UNCHANGED storeFailed
          ELSE /\ repairs' = [repairs EXCEPT ![r].pc = "failed"]
               /\ storeFailed' = TRUE
               /\ UNCHANGED <<posts, cache>>
    /\ UNCHANGED <<db, users, clock, tasks, returned, nUpdates,
                     nComments,
                     session>>

RequestLists == { <<>>, <<2, 1>>, <<1, 3>> }

\* The users that edit their profile.
Editors == {1, 2}

\* The long request of n ids, n down to 1.
Countdown(n) == [i \in 1..n |-> n + 1 - i]

(***************************************************************************)
(* Spec: a profile is edited while the cache is read; all of it happens    *)
(* within one tick of the clock.                                           *)
(***************************************************************************)
Next ==
    \/ \E t \in Tasks, uid \in Users : GetUserStart(t, uid)
    \/ \E t \in Tasks : GetUserLookup(t)
    \/ \E t \in Tasks : GetUserResume(t)
    \/ \E t \in Tasks, uids \in RequestLists : GetUsersBegin(t, uids)
    \/ \E t \in Tasks : GetUsersQuery(t)
    \/ \E t \in Tasks : GetUsersFill(t)
    \/ \E t \in Tasks : Return(t)
    \/ \E t \in Tasks, uid \in Editors, data \in UpdateData :
          UpdateStart(t, uid, data, MaxEdits)
    \/ \E t \in Tasks : UpdateWrite(t)
    \/ \E t \in Tasks : UpdateReread(t)
    \/ \E t \in Tasks : UpdateFinish(t)
    \/ \E r \in Repairs : RepairQuery(r)
    \/ \E r \in Repairs : RepairCommit(r)

Spec == Init /\ [][Next]_vars

(***************************************************************************)
(* SpecRepair: profiles are edited in quick succession and the repairs     *)
(* run; nothing reads the cache.                                           *)
(***************************************************************************)
NextRepair ==
    \/ \E t \in Tasks, uid \in Editors, data \in UpdateData :
          UpdateStart(t, uid, data, MaxUpdates)
    \/ \E t \in Tasks : UpdateWrite(t)
    \/ \E t \in Tasks : UpdateReread(t)
    \/ \E t \in Tasks : UpdateFinish(t)
    \/ \E t \in Tasks : Return(t)
    \/ \E r \in Repairs : RepairQuery(r)
    \/ \E r \in Repairs : RepairCommit(r)

SpecRepair == Init /\ [][NextRepair]_vars

(***************************************************************************)
(* SpecBatch: the repairs of a user with more posts than MAX_BATCH_SIZE.   *)
(***************************************************************************)
\* User 2 has written three posts, user 1 one; user 1 commented the first.
BatchPosts ==
    <<PostOf(2, <<Comment(1, 1)>>), PostOf(2, <<>>), PostOf(2, <<>>),
      PostOf(1, <<>>)>>

InitBatch ==
    /\ db \in BOOLEAN
    /\ users = [id \in Users |->
                  IF HasInitialProfile(id) THEN InitialProfile(id) ELSE NoProfile]
    /\ posts = BatchPosts
    /\ cache = EmptyCache
    /\ clock = 0
    /\ tasks = [t \in Tasks |-> IdleTask]
    /\ repairs = [r \in Repairs |-> IdleRepair]
    /\ returned = [u \in Users |-> 0]
    /\ nUpdates = 0
    /\ storeFailed = FALSE
    /\ nComments = 0
    /\ session = SignedOutSession

SpecBatch == InitBatch /\ [][NextRepair]_vars

(***************************************************************************)
(* SpecPartial: the user with more posts than MAX_BATCH_SIZE edits the     *)
(* profile while the profile is read through the cache.                    *)
(***************************************************************************)
\* The author of the first post of BatchPosts.
Prolific == BatchPosts[1].authorId

NextPartial ==
    \/ \E t \in Tasks : GetUserStart(t, Prolific)
    \/ \E t \in Tasks : GetUserLookup(t)
    \/ \E t \in Tasks : GetUserResume(t)
    \/ \E t \in Tasks : Return(t)
    \/ \E t \in Tasks, data \in UpdateData :
          UpdateStart(t, Prolific, data, MaxEdits)
    \/ \E t \in Tasks : UpdateWrite(t)
    \/ \E t \in Tasks : UpdateReread(t)
    \/ \E t \in Tasks : UpdateFinish(t)
    \/ \E r \in Repairs : RepairQuery(r)
    \/ \E r \in Repairs : RepairCommit(r)

SpecPartial == InitBatch /\ [][NextPartial]_vars

(***************************************************************************)
(* SpecTrigger: the profile page saves the edit form, with and without a   *)
(* display name, while the profile is read through the cache.              *)
(***************************************************************************)
\* What the profile page and other callers pass as data: the edit form sends
\* displayName and bio, with the display name as typed, which may be empty.
\* The bio is not part of the profile the cache and the posts carry; writing
\* it gives the document a new updatedAt.
FormData ==
    UpdateData
    \cup { [bio |-> "b1"], [displayName |-> "", bio |-> "b1"],
           [displayName |-> "n1", bio |-> "b1"] }

NextTrigger ==
    \/ \E t \in Tasks, uid \in Editors : GetUserStart(t, uid)
    \/ \E t \in Tasks : GetUserLookup(t)
    \/ \E t \in Tasks : GetUserResume(t)
    \/ \E t \in Tasks : Return(t)
    \/ \E t \in Tasks, uid \in Editors, data \in FormData :
          UpdateStart(t, uid, data, MaxEdits)
    \/ \E t \in Tasks : UpdateWrite(t)
    \/ \E t \in Tasks : UpdateReread(t)
    \/ \E t \in Tasks : UpdateFinish(t)
    \/ \E r \in Repairs : RepairQuery(r)
    \/ \E r \in Repairs : RepairCommit(r)

SpecTrigger == Init /\ [][NextTrigger]_vars

(***************************************************************************)
(* SpecEnrich: the posts are read and enriched while a profile is edited   *)
(* and repaired.                                                           *)
(***************************************************************************)
NextEnrich ==
    \/ \E t \in Tasks : GetPostsStart(t)
    \/ \E t \in Tasks : GetPostsQuery(t)
    \/ \E t \in Tasks : EnrichBegin(t)
    \/ \E t \in Tasks : EnrichQuery(t)
    \/ \E t \in Tasks : EnrichFill(t)
    \/ \E t \in Tasks : Return(t)
    \/ \E t \in Tasks, uid \in Editors, data \in UpdateData :
          UpdateStart(t, uid, data, MaxEdits)
    \/ \E t \in Tasks : UpdateWrite(t)
    \/ \E t \in Tasks : UpdateReread(t)
    \/ \E t \in Tasks : UpdateFinish(t)
    \/ \E r \in Repairs : RepairQuery(r)
    \/ \E r \in Repairs : RepairCommit(r)

SpecEnrich == Init /\ [][NextEnrich]_vars

(***************************************************************************)
(* SpecSession: profiles are read and the user signs out, through either   *)
(* function, while time passes.                                            *)
(***************************************************************************)
NextSession ==
    \/ Tick
    \/ \E t \in Tasks, uid \in Users : GetUserStart(t, uid)
    \/ \E t \in Tasks : GetUserLookup(t)
    \/ \E t \in Tasks : GetUserResume(t)
    \/ \E t \in Tasks : LogoutUser(t)
    \/ \E t \in Tasks : SignOutUser(t)
    \/ \E t \in Tasks : SignedOut(t)
    \/ \E t \in Tasks : Return(t)

SpecSession == Init /\ [][NextSession]_vars

(***************************************************************************)
(* SpecAuth: accounts sign in and out, and the listener of AuthProvider    *)
(* follows.                                                                *)
(***************************************************************************)
NextAuth ==
    \/ \E t \in Tasks, uid \in Users : AuthSignedIn(t, uid)
    \/ \E t \in Tasks : AuthProfileLookup(t)
    \/ \E t \in Tasks : AuthProfileCreate(t)
    \/ \E t \in Tasks : AuthProfileResume(t)
    \/ AuthSignedOut
    \/ \E t \in Tasks : Return(t)

SpecAuth == Init /\ [][NextAuth]_vars

(***************************************************************************)
(* SpecInvalidate: profiles are read and entries are invalidated while     *)
(* time passes.                                                            *)
(***************************************************************************)
NextInvalidate ==
    \/ Tick
    \/ \E t \in Tasks, uid \in Users : GetUserStart(t, uid)
    \/ \E t \in Tasks : GetUserLookup(t)
    \/ \E t \in Tasks : GetUserResume(t)
    \/ \E t \in Tasks, uid \in Users : InvalidateUserCache(t, uid)
    \/ \E t \in Tasks : Return(t)

SpecInvalidate == Init /\ [][NextInvalidate]_vars

(***************************************************************************)
(* SpecRead: profiles and posts are read through the cache, by id, by list *)
(* of ids and by getPosts; nothing is edited and no time passes.           *)
(***************************************************************************)
NextRead ==
    \/ \E t \in Tasks, uid \in Users : GetUserStart(t, uid)
    \/ \E t \in Tasks : GetUserLookup(t)
    \/ \E t \in Tasks : GetUserResume(t)
    \/ \E t \in Tasks, uids \in RequestLists : GetUsersBegin(t, uids)
    \/ \E t \in Tasks : GetUsersQuery(t)
    \/ \E t \in Tasks : GetUsersFill(t)
    \/ \E t \in Tasks : GetPostsStart(t)
    \/ \E t \in Tasks : GetPostsQuery(t)
    \/ \E t \in Tasks : EnrichBegin(t)
    \/ \E t \in Tasks : EnrichQuery(t)
    \/ \E t \in Tasks : EnrichFill(t)
    \/ \E t \in Tasks : Return(t)

SpecRead == Init /\ [][NextRead]_vars

(***************************************************************************)
(* SpecComments: signed-in users and a visitor comment and delete.         *)
(***************************************************************************)
\* Who uses the Post component: the accounts, and 0 for a visitor.
Actors == Users \cup {0}

\* The ids of the posts and of the comments.
PostIds == 1..Len(InitPosts)

NextComments ==
    \/ \E t \in Tasks, who \in Actors, pid \in PostIds :
          AddCommentStart(t, who, pid)
    \/ \E t \in Tasks : AddCommentDoc(t)
    \/ \E t \in Tasks : AddCommentRead(t)
    \/ \E t \in Tasks : AddCommentWrite(t)
    \/ \E t \in Tasks, who \in Actors, pid \in PostIds,
          cid \in 1..MaxCommentId : DeleteCommentStart(t, who, pid, cid)
    \/ \E t \in Tasks : DeleteCommentRead(t)
    \/ \E t \in Tasks : DeleteCommentWrite(t)
    \/ \E t \in Tasks : DeleteCommentDoc(t)
    \/ \E t \in Tasks, who \in Actors, pid \in PostIds :
          DeletePostStart(t, who, pid)
    \/ \E t \in Tasks : DeletePostDoc(t)
    \/ \E t \in Tasks : Return(t)

\* User 1 has written a post, commented by user 2 and by user 1; user 2 has
\* written a post, commented by user 3.
CommentPosts ==
    <<PostOf(1, <<Comment(1, 2), Comment(2, 1)>>), PostOf(2, <<Comment(4, 3)>>)>>

InitComments ==
    /\ db \in BOOLEAN
    /\ users = [id \in Users |->
                  IF HasInitialProfile(id) THEN InitialProfile(id) ELSE NoProfile]
    /\ posts = CommentPosts
    /\ cache = EmptyCache
    /\ clock = 0
    /\ tasks = [t \in Tasks |-> IdleTask]
    /\ repairs = [r \in Repairs |-> IdleRepair]
    /\ returned = [u \in Users |-> 0]
    /\ nUpdates = 0
    /\ storeFailed = FALSE
    /\ nComments = 0
    /\ session = SignedOutSession

SpecComments == InitComments /\ [][NextComments]_vars

(***************************************************************************)
(* SpecRace: the profile of one user is edited and repaired while the      *)
(* other users add comments to the posts and delete comments.              *)
(***************************************************************************)
\* The user whose profile is edited, and the others.
Edited == 1
Others == Actors \ {Edited}

NextRace ==
    \/ \E t \in Tasks, data \in UpdateData :
          UpdateStart(t, Edited, data, MaxEdits)
    \/ \E t \in Tasks : UpdateWrite(t)
    \/ \E t \in Tasks : UpdateReread(t)
    \/ \E t \in Tasks : UpdateFinish(t)
    \/ \E r \in Repairs : RepairQuery(r)
    \/ \E r \in Repairs : RepairCommit(r)
    \/ \E t \in Tasks, who \in Others, pid \in PostIds :
          AddCommentStart(t, who, pid)
    \/ \E t \in Tasks : AddCommentDoc(t)
    \/ \E t \in Tasks : AddCommentRead(t)
    \/ \E t \in Tasks : AddCommentWrite(t)
    \/ \E t \in Tasks, who \in Others, pid \in PostIds,
          cid \in 1..MaxCommentId : DeleteCommentStart(t, who, pid, cid)
    \/ \E t \in Tasks : DeleteCommentRead(t)
    \/ \E t \in Tasks : DeleteCommentWrite(t)
    \/ \E t \in Tasks : DeleteCommentDoc(t)
    \/ \E t \in Tasks : Return(t)

SpecRace == InitComments /\ [][NextRace]_vars

(***************************************************************************)
(* SpecFill: the entries of the users that have a profile are filled by    *)
(* getUser, by getUsers and by setUser while time passes.                  *)
(***************************************************************************)
\* The users whose profile document exists.
Profiled == {u \in Users : HasInitialProfile(u)}

NextFill ==
    \/ Tick
    \/ \E t \in Tasks, uid \in Profiled : GetUserStart(t, uid)
    \/ \E t \in Tasks : GetUserLookup(t)
    \/ \E t \in Tasks : GetUserResume(t)
    \/ \E t \in Tasks : GetUsersBegin(t, <<2, 1>>)
    \/ \E t \in Tasks : GetUsersQuery(t)
    \/ \E t \in Tasks : GetUsersFill(t)
    \/ \E edited \in BOOLEAN : SetUserCall(1, edited)
    \/ \E t \in Tasks : Return(t)

SpecFill == Init /\ [][NextFill]_vars

(***************************************************************************)
(* SpecLikes: the users like and unlike one post.                          *)
(***************************************************************************)
\* The post whose heart button is clicked.
LikedPost == 1

NextLikes ==
    \/ \E t \in Tasks, who \in Users : ToggleLikeStart(t, who, LikedPost)
    \/ \E t \in Tasks : ToggleLikeRead(t)
    \/ \E t \in Tasks : ToggleLikeWrite(t)
    \/ \E t \in Tasks : Return(t)

SpecLikes == Init /\ [][NextLikes]_vars

(***************************************************************************)
(* SpecTimeAgo: posts of every age are rendered, by one caller.            *)
(***************************************************************************)
\* The seconds into a day at which the dates are taken: around the minute,
\* the hour and the end of the day.
DayOffsets == {0, 59, 60, 3599, 3600, 86399}

\* The ages in seconds: every whole day up to MaxDays at every offset, and
\* dates in the future.
Ages ==
    {d * 86400 + o : d \in 0..MaxDays, o \in DayOffsets} \cup {-1, -86400}

NextTimeAgo ==
    \/ \E diff \in Ages : FormatTimeAgo(1, diff)
    \/ Return(1)

SpecTimeAgo == Init /\ [][NextTimeAgo]_vars

(***************************************************************************)
(* SpecTTL: the cache is read while time passes; no profile is edited.     *)
(***************************************************************************)
NextTTL ==
    \/ Tick
    \/ \E t \in Tasks, uid \in Users : GetUserStart(t, uid)
    \/ \E t \in Tasks : GetUserLookup(t)
    \/ \E t \in Tasks : GetUserResume(t)
    \/ \E t \in Tasks, uids \in RequestLists : GetUsersBegin(t, uids)
    \/ \E t \in Tasks : GetUsersQuery(t)
    \/ \E t \in Tasks : GetUsersFill(t)
    \/ \E t \in Tasks : Return(t)

SpecTTL == Init /\ [][NextTTL]_vars

(***************************************************************************)
(* SpecChunk: one caller asks for long lists of ids, one call after the    *)
(* other, while time passes.                                               *)
(***************************************************************************)
\* The lengths of the long requests: around the multiples of the 'in' limit.
LongLengths ==
    {0, 1, IN_LIMIT - 1, IN_LIMIT, IN_LIMIT + 1, 2 * IN_LIMIT,
     2 * IN_LIMIT + 1, MaxIds}

NextChunk ==
    \/ Tick
    \/ \E n \in LongLengths : GetUsersBegin(1, Countdown(n))
    \/ GetUsersQuery(1)
    \/ GetUsersFill(1)
    \/ Return(1)

SpecChunk == Init /\ [][NextChunk]_vars

(***************************************************************************)
(* Properties of the repair (SpecRepair).                                  *)
(***************************************************************************)
PostsOf(uid) == {p \in DOMAIN posts : posts[p].authorId = uid}

\* The repair r ran to its end: every commit succeeded.
RepairDone(r) == repairs[r].pc = "done"

\* The comments of post p that uid wrote carry name and photo.
CommentsCarry(p, uid, name, photo) ==
    \A i \in 1..Len(posts[p].comments) :
        posts[p].comments[i].authorId = uid =>
            /\ posts[p].comments[i].authorName = name
            /\ posts[p].comments[i].authorPhotoURL = photo

\* C1: once the repair of a user's profile edit has run to its end without a
\* store failure and without another writer, every comment the user wrote on
\* a post of another user carries the new name and the new avatar.
C1_CommentsOnOtherPostsRepaired ==
    \A r \in Repairs :
        RepairDone(r) /\ ~repairs[r].dirty =>
            \A p \in DOMAIN posts :
                posts[p].authorId # repairs[r].uid =>
                    CommentsCarry(p, repairs[r].uid, repairs[r].name,
                                  repairs[r].photo)

\* C2: once the repair for a user with fewer than MAX_BATCH_SIZE posts has
\* run to its end without a store failure and without another writer, every
\* post of the user carries the new name and avatar, and so does every
\* comment the user wrote on one of those posts.
C2_OwnPostsRepaired ==
    \A r \in Repairs :
        /\ RepairDone(r)
        /\ ~repairs[r].dirty
        /\ Cardinality(PostsOf(repairs[r].uid)) < MAX_BATCH_SIZE
        => \A p \in PostsOf(repairs[r].uid) :
              /\ posts[p].authorName = repairs[r].name
              /\ posts[p].authorPhotoURL = repairs[r].photo
              /\ CommentsCarry(p, repairs[r].uid, repairs[r].name,
                               repairs[r].photo)

\* A repair that changed the name or the avatar of a post with a comment of
\* its author has run to its end, alone.
C2_Witness ==
    \E r \in Repairs :
        /\ RepairDone(r) /\ ~repairs[r].dirty
        /\ repairs[r].name # "n0"
        /\ \E p \in PostsOf(repairs[r].uid) :
              /\ posts[p].authorName = repairs[r].name
              /\ \E i \in 1..Len(posts[p].comments) :
                    /\ posts[p].comments[i].authorId = repairs[r].uid
                    /\ posts[p].comments[i].authorName = repairs[r].name
              /\ \E i \in 1..Len(posts[p].comments) :
                    /\ posts[p].comments[i].authorId # repairs[r].uid
                    /\ posts[p].comments[i].authorName = "n0"

\* No updateUserProfile call and no repair is in flight, and no repair failed.
Quiescent ==
    /\ \A t \in Tasks : tasks[t].op = "update" => tasks[t].pc = "done"
    /\ \A r \in Repairs : repairs[r].pc \in {"idle", "done"}

\* C3: once every repair that was started has run to its end without a store
\* failure, every post of a user whose profile was edited carries the name
\* and the avatar of the profile as the last edit left it.
C3_PostsCarryLatestProfile ==
    Quiescent /\ ~storeFailed =>
        \A r \in Repairs :
            RepairDone(r) =>
                \A p \in PostsOf(repairs[r].uid) :
                    /\ posts[p].authorName = users[repairs[r].uid].displayName
                    /\ posts[p].authorPhotoURL = users[repairs[r].uid].photoURL

(***************************************************************************)
(* Properties of the reads while a profile is edited (Spec).               *)
(***************************************************************************)
\* C4: a getUser call issued after an updateUserProfile call for the same
\* user has returned never yields a profile older than the one that update
\* wrote: it yields null or a profile at least as recent.
C4_NoPreUpdateProfileAfterReturn ==
    \A t \in Tasks :
        tasks[t].op = "getUser" /\ tasks[t].pc = "done" =>
            \/ tasks[t].user = NoProfile
            \/ tasks[t].user.rev >= tasks[t].minRev

\* C6: the keys of the map getUsers returns are the requested ids that have a
\* profile in the store, and the profile returned for an id is the one a
\* fetch would return: it is never older than the profile written by an
\* updateUserProfile call that had returned before getUsers was called.
C6_GetUsersResult ==
    \A t \in Tasks :
        tasks[t].op = "getUsers" /\ tasks[t].pc = "done" =>
            /\ DOMAIN tasks[t].result =
                  {u \in Range(tasks[t].uids) : UserDoc(users, u) # NoProfile}
            /\ \A u \in DOMAIN tasks[t].result :
                  /\ tasks[t].result[u].uid = u
                  /\ tasks[t].result[u].rev >= tasks[t].revs[u]

(***************************************************************************)
(* Properties of the reads while time passes (SpecTTL).  No profile is     *)
(* edited there, so the profile of an entry is the document of the store.  *)
(***************************************************************************)
\* The age the call found for its id is that of a fresh entry.
FoundFresh(age) == 0 <= age /\ age < CACHE_TTL

\* C5: getUser returns the cached profile and makes no store lookup when the
\* entry for the id is younger than the TTL; it makes exactly one point
\* lookup when the entry's age is the TTL or more, or when there is no entry,
\* and then returns what the lookup found.
C5_GetFreshness ==
    \A t \in Tasks :
        tasks[t].op = "getUser" =>
            IF FoundFresh(tasks[t].age)
            THEN /\ tasks[t].pc = "done"
                 /\ tasks[t].lookups = 0
                 /\ tasks[t].user # NoProfile
                 /\ tasks[t].user = UserDoc(users, tasks[t].uid)
            ELSE /\ tasks[t].lookups = 1
                 /\ tasks[t].pc = "done" =>
                       tasks[t].user = UserDoc(users, tasks[t].uid)

\* One call found an entry exactly as old as the TTL and looked the profile
\* up; another found a fresh entry and returned it without a lookup.
C5_Witness ==
    \E t1, t2 \in Tasks :
        /\ tasks[t1].op = "getUser" /\ tasks[t1].pc = "done"
        /\ tasks[t1].age = CACHE_TTL /\ tasks[t1].lookups = 1
        /\ tasks[t1].user # NoProfile
        /\ tasks[t2].op = "getUser" /\ tasks[t2].pc = "done"
        /\ FoundFresh(tasks[t2].age) /\ tasks[t2].lookups = 0

\* The ids named by the store queries of a getUsers call.
Queried(t) == UNION {Range(tasks[t].calls[j]) : j \in 1..Len(tasks[t].calls)}

\* C8: an id whose entry is fresh when getUsers scans it is in no store query
\* of the call and is served from the cache; when every requested id is fresh
\* or the list is empty the call makes no store query and returns at once.
C8_FreshIdsNotFetched ==
    \A t \in Tasks :
        tasks[t].op = "getUsers" =>
            /\ \A u \in Range(tasks[t].uids) :
                  FoundFresh(tasks[t].ages[u]) =>
                      /\ u \notin Queried(t)
                      /\ u \notin Range(tasks[t].uncached)
                      /\ u \in DOMAIN tasks[t].result
            /\ (\A u \in Range(tasks[t].uids) : FoundFresh(tasks[t].ages[u]))
                  => tasks[t].calls = <<>> /\ tasks[t].pc = "done"

\* A call for one fresh and one missing or stale id has returned after a
\* single query that named only the second.
C8_Witness ==
    \E t \in Tasks :
        /\ tasks[t].op = "getUsers" /\ tasks[t].pc = "done"
        /\ \E u, v \in Range(tasks[t].uids) :
              /\ FoundFresh(tasks[t].ages[u])
              /\ ~FoundFresh(tasks[t].ages[v])
              /\ tasks[t].calls = << <<v>> >>
              /\ DOMAIN tasks[t].result = {u, v}

\* C9: a profile that getUser or getUsers returns without having fetched it
\* comes from an entry younger than the TTL; an entry of age TTL or more is
\* never served, even while the map still holds it.
C9_StaleNeverServed ==
    \A t \in Tasks :
        /\ tasks[t].op = "getUser" /\ tasks[t].pc = "done"
           /\ tasks[t].user # NoProfile /\ tasks[t].age >= CACHE_TTL
           => tasks[t].lookups = 1
        /\ tasks[t].op = "getUsers" =>
              \A u \in Range(tasks[t].uids) :
                  tasks[t].ages[u] >= CACHE_TTL =>
                      /\ u \in Range(tasks[t].uncached)
                      /\ tasks[t].pc = "done" => u \in Queried(t)
                      /\ tasks[t].pc \in {"query", "failed"} =>
                            u \notin DOMAIN tasks[t].result

\* The map still holds a stale entry for an id while a getUser call for that
\* id waits for its lookup, and a getUsers call that found the same entry
\* stale has returned after fetching the id.
C9_Witness ==
    \E t1, t2 \in Tasks :
        /\ tasks[t1].op = "getUser" /\ tasks[t1].pc = "lookup"
        /\ tasks[t1].age >= CACHE_TTL
        /\ tasks[t1].uid \in DOMAIN cache
        /\ tasks[t2].op = "getUsers" /\ tasks[t2].pc = "done"
        /\ tasks[t1].uid \in Range(tasks[t2].uids)
        /\ tasks[t2].ages[tasks[t1].uid] >= CACHE_TTL
        /\ tasks[t1].uid \in Queried(t2)

(***************************************************************************)
(* Properties of the long requests (SpecChunk).                            *)
(***************************************************************************)
\* The chunks of the queries made so far, one after the other.
RECURSIVE Flatten(_)
Flatten(ss) == IF ss = <<>> THEN <<>> ELSE Head(ss) \o Flatten(Tail(ss))

CeilDiv(n, d) == (n + d - 1) \div d

\* C7: for n distinct uncached ids, getUsers makes ceil(n / 10) store queries,
\* each naming at most 10 ids; the chunks are the uncached ids in request
\* order, each id in exactly one chunk; 23 ids go in chunks of 10, 10 and 3;
\* and the returned map holds, next to the cache hits, exactly what the
\* queries found.
C7_Chunking ==
    \A t \in Tasks :
        tasks[t].op = "getUsers" =>
            LET unc   == tasks[t].uncached
                calls == tasks[t].calls
                n     == Len(unc)
            IN  /\ \A j \in 1..Len(calls) :
                      /\ Len(calls[j]) \in 1..IN_LIMIT
                      /\ j < CeilDiv(n, IN_LIMIT) => Len(calls[j]) = IN_LIMIT
                /\ Flatten(calls) = SubSeq(unc, 1, Len(Flatten(calls)))
                /\ tasks[t].pc \in {"fill", "done"} =>
                      /\ Len(calls) = CeilDiv(n, IN_LIMIT)
                      /\ Flatten(calls) = unc
                      /\ n = 23 => /\ Len(calls[1]) = 10
                                   /\ Len(calls[2]) = 10
                                   /\ Len(calls[3]) = 3
                /\ tasks[t].pc = "done" =>
                      /\ DOMAIN tasks[t].result \ Range(unc) =
                            Range(tasks[t].uids) \ Range(unc)
                      /\ DOMAIN tasks[t].result \cap Range(unc) =
                            {u \in Range(unc) : UserDoc(users, u) # NoProfile}
                      /\ \A u \in DOMAIN tasks[t].result \cap Range(unc) :
                            tasks[t].result[u] = UserDoc(users, u)

\* A request of 23 ids, none of them cached, has returned after three queries
\* with the 16 profiles the store holds.
C7_Witness ==
    \E t \in Tasks :
        /\ tasks[t].op = "getUsers" /\ tasks[t].pc = "done"
        /\ Len(tasks[t].uncached) = 23
        /\ Len(tasks[t].calls) = 3
        /\ Len(tasks[t].calls[3]) = 3
        /\ Cardinality(DOMAIN tasks[t].result) = 16

C11_SweepOnlyAtCapacity ==
    [][ \A t \in Tasks :
          /\ tasks[t].op = "getUser" /\ tasks[t].pc = "resume"
          /\ tasks'[t].pc = "done" /\ tasks[t].user # NoProfile
          => LET uid   == tasks[t].uid
                 stale == {u \in DOMAIN cache :
                             clock - cache[u].timestamp >= CACHE_TTL}
                 kept  == IF Cardinality(DOMAIN cache) >= MAX_CACHE_SIZE
                          THEN DOMAIN cache \ stale ELSE DOMAIN cache
             IN  /\ DOMAIN cache' = kept \cup {uid}
                 /\ \A u \in kept \ {uid} : cache'[u] = cache[u]
                 /\ cache'[uid] = [user |-> tasks[t].user, timestamp |-> clock]
      ]_vars

\* A getUsers call had fetched and cached users 1 and 2; later a getUser call
\* found user 1's entry stale and stored it again with the map at capacity:
\* the stale entry of user 2 is gone, the new entry of user 1 has the current
\* time.
C11_Witness ==
    \E t1, t2 \in Tasks :
        /\ tasks[t1].op = "getUsers" /\ tasks[t1].pc = "done"
        /\ {1, 2} \subseteq Queried(t1)
        /\ tasks[t2].op = "getUser" /\ tasks[t2].pc = "done"
        /\ tasks[t2].uid = 1 /\ tasks[t2].age >= CACHE_TTL
        /\ DOMAIN cache = {1}
        /\ cache[1].timestamp = clock

(***************************************************************************)
(* Properties of the enrichment (SpecEnrich).                              *)
(***************************************************************************)
\* The posts and comments of a list of Post objects, as (before, after) pairs
\* of the records at the same place of the input and of the output.
Pairs(before, after) ==
    {<<before[i].post, after[i].post>> : i \in 1..Len(before)}
    \cup UNION {{<<before[i].post.comments[j], after[i].post.comments[j]>> :
                    j \in 1..Len(before[i].post.comments)} :
                 i \in 1..Len(before)}

\* The output has the shape of the input: the same posts in the same order,
\* each with the same author id and the same comments by id and author id.
SameShape(before, after) ==
    /\ Len(after) = Len(before)
    /\ \A i \in 1..Len(before) :
          /\ after[i].id = before[i].id
          /\ after[i].post.authorId = before[i].post.authorId
          /\ Len(after[i].post.comments) = Len(before[i].post.comments)
          /\ \A j \in 1..Len(before[i].post.comments) :
                /\ after[i].post.comments[j].id = before[i].post.comments[j].id
                /\ after[i].post.comments[j].authorId =
                      before[i].post.comments[j].authorId

\* What getPosts returned keeps everything but the author fields, and keeps
\* the author fields too where the author did not resolve.
EnrichedKeepsTheRest ==
    \A t \in Tasks :
        tasks[t].op = "getPosts" /\ tasks[t].pc = "done" =>
            /\ SameShape(tasks[t].records, tasks[t].enriched)
            /\ \A pr \in Pairs(tasks[t].records, tasks[t].enriched) :
                  pr[1].authorId \notin DOMAIN tasks[t].result =>
                      /\ pr[2].authorName = pr[1].authorName
                      /\ pr[2].authorPhotoURL = pr[1].authorPhotoURL

\* C12: enrichPostsWithUserData changes nothing but author names and avatars:
\* the returned posts and comments have the ids, author ids, order and number
\* of the input; a post or comment whose author did not resolve keeps its
\* name and avatar; and no step of the call writes the store or changes the
\* posts it was given.
C12_EnrichKeepsTheRest ==
    [][ /\ EnrichedKeepsTheRest'
        /\ \A t \in Tasks :
              tasks[t].op = "getPosts" /\ tasks'[t] # tasks[t] =>
                  /\ posts' = posts
                  /\ users' = users
                  /\ tasks[t].pc \in {"enrich", "query", "fill"} =>
                        tasks'[t].records = tasks[t].records
      ]_vars

\* getPosts has returned the comment of an author without a profile with the
\* name it was persisted with, next to records of authors that resolved.
C12_Witness ==
    \E t \in Tasks :
        /\ tasks[t].op = "getPosts" /\ tasks[t].pc = "done"
        /\ \E pr \in Pairs(tasks[t].records, tasks[t].enriched) :
              /\ pr[1].authorId \notin DOMAIN tasks[t].result
              /\ pr[2].authorName = "n0"
        /\ \E pr \in Pairs(tasks[t].records, tasks[t].enriched) :
              /\ pr[1].authorId \in DOMAIN tasks[t].result
              /\ pr[2].authorName # pr[1].authorName

\* C13: every post and comment that getPosts returns whose author is in the
\* map getCachedUsers returned carries the display name and photo URL of that
\* profile, whatever the record holds in the store.
C13_EnrichUsesProfiles ==
    \A t \in Tasks :
        tasks[t].op = "getPosts" /\ tasks[t].pc = "done" =>
            \A pr \in Pairs(tasks[t].records, tasks[t].enriched) :
                pr[1].authorId \in DOMAIN tasks[t].result =>
                    /\ pr[2].authorName =
                          tasks[t].result[pr[1].authorId].displayName
                    /\ pr[2].authorPhotoURL =
                          tasks[t].result[pr[1].authorId].photoURL

\* getPosts has returned a post of an edited author with the new name or
\* avatar while the post read from the store held the old one.
C13_Witness ==
    \E t \in Tasks :
        /\ tasks[t].op = "getPosts" /\ tasks[t].pc = "done"
        /\ \E i \in 1..Len(tasks[t].records) :
              LET old == tasks[t].records[i].post
                  new == tasks[t].enriched[i].post
              IN  /\ old.authorId \in DOMAIN tasks[t].result
                  /\ tasks[t].result[old.authorId].rev > 1
                  /\ <<new.authorName, new.authorPhotoURL>> #
                        <<old.authorName, old.authorPhotoURL>>
                  /\ <<new.authorName, new.authorPhotoURL>> =
                        <<users[old.authorId].displayName,
                          users[old.authorId].photoURL>>

\* C14: an enrichPostsWithUserData call that starts after updateUserProfile
\* has returned for a user, with no later write of that profile, returns the
\* posts and comments of the user with the name and avatar of the updated
\* profile, whether or not the repair has run.
C14_EnrichMasksUnrepaired ==
    \A t \in Tasks :
        tasks[t].op = "getPosts" /\ tasks[t].pc = "done" =>
            \A pr \in Pairs(tasks[t].records, tasks[t].enriched) :
                LET u == pr[1].authorId
                IN  tasks[t].revs[u] > 0 /\ tasks[t].revs[u] = users[u].rev =>
                        /\ pr[2].authorName = users[u].displayName
                        /\ pr[2].authorPhotoURL = users[u].photoURL

(***************************************************************************)
(* Properties of the write batches of the repair (SpecBatch).              *)
(***************************************************************************)
\* C15: no batch that a repair sends to the store holds more than
\* MAX_BATCH_SIZE staged updates, counting the update of the author fields of
\* a post and the update of its comments as two.
C15_BatchWithinLimit ==
    \A r \in Repairs :
        repairs[r].pc \in {"commit", "commitLast"} =>
            Len(repairs[r].ops) <= MAX_BATCH_SIZE

\* C16: after a repair has flushed its batch inside the loop, the updates it
\* stages next go into a batch that was not committed: the repair does not
\* throw on a committed batch, and a repair that has ended with no store
\* failure and no other writer has rewritten every post of its user, also
\* when the user has more than MAX_BATCH_SIZE posts.
C16_FreshBatchAfterFlush ==
    \A r \in Repairs :
        /\ ~(repairs[r].committed /\ repairs[r].pc = "failed")
        /\ repairs[r].pc \in {"done", "failed"} /\ ~storeFailed
           /\ ~repairs[r].dirty
           => /\ repairs[r].pc = "done"
              /\ \A p \in PostsOf(repairs[r].uid) :
                    /\ posts[p].authorName = repairs[r].name
                    /\ posts[p].authorPhotoURL = repairs[r].photo

(***************************************************************************)
(* Properties of updateUserProfile and its repair (SpecRepair).            *)
(***************************************************************************)
\* The updateUserProfile call of slot t is between its first and last step.
Updating(t) ==
    tasks[t].op = "update" /\ tasks[t].pc \in {"write", "reread", "finish"}

\* C17: updateUserProfile does not wait for its repair: each of its steps can
\* be taken whatever the repairs are doing, none of them writes a post, and
\* at the step in which the call returns the repair it started has neither
\* received the result of its posts query nor staged or committed anything.
C17_RepairDetached ==
    [][ \A t \in Tasks :
          Updating(t) =>
             /\ ENABLED (UpdateWrite(t) \/ UpdateReread(t) \/ UpdateFinish(t))
             /\ tasks'[t] # tasks[t] =>
                   /\ posts' = posts
                   /\ \A r \in Repairs :
                         repairs'[r] # repairs[r] =>
                            /\ tasks[t].pc = "finish"
                            /\ r = tasks[t].next
                            /\ repairs[r].pc = "idle"
                            /\ repairs'[r].pc = "query"
                            /\ repairs'[r].snapshot = <<>>
                            /\ repairs'[r].ops = <<>>
                            /\ ~repairs'[r].committed
                   /\ tasks[t].pc = "finish" => tasks'[t].pc = "done"
      ]_vars

\* An updateUserProfile call has returned while the repair it started still
\* waits for its posts query and no post has been written.
C17_Witness ==
    \E t \in Tasks, r \in Repairs :
        /\ tasks[t].op = "update" /\ tasks[t].pc = "done"
        /\ repairs[r].pc = "query" /\ repairs[r].uid = tasks[t].uid
        /\ users[tasks[t].uid].rev > 1
        /\ posts = InitPosts

\* C18: a repair whose posts query or batch commit failed stays failed: it
\* sends no further query or commit and its state does not change; the
\* updateUserProfile call that started it had returned when the repair
\* started, and a call that returned does not fail afterwards.
C18_RepairFailureContained ==
    [][ /\ \A r \in Repairs :
              repairs[r].pc = "failed" =>
                  /\ ~ENABLED (RepairQuery(r) \/ RepairCommit(r))
                  /\ repairs'[r] =
                        [repairs[r] EXCEPT !.dirty = repairs'[r].dirty]
        /\ \A r \in Repairs :
              repairs'[r].pc # "idle" => returned'[repairs'[r].uid] > 0
        /\ \A t \in Tasks :
              tasks[t].op = "update" /\ tasks[t].pc = "done" =>
                  tasks'[t].pc \in {"done", "idle"}
      ]_vars

\* The commit of a repair has failed after the updateUserProfile call that
\* started it returned: the profile is updated, the posts are as they were.
C18_Witness ==
    \E r \in Repairs :
        /\ repairs[r].pc = "failed" /\ repairs[r].ops # <<>>
        /\ ~repairs[r].committed
        /\ returned[repairs[r].uid] = users[repairs[r].uid].rev
        /\ users[repairs[r].uid].rev > 1
        /\ posts = InitPosts

\* The step commits a batch of repair r.
Commits(r) ==
    /\ repairs[r].pc \in {"commit", "commitLast"}
    /\ ~repairs[r].committed
    /\ repairs'[r].committed

C20_SignOutClearsCache ==
    \A t \in Tasks :
        tasks[t].op \in {"logoutUser", "signOutUser"} /\ tasks[t].pc = "done"
        => \A u \in DOMAIN tasks[t].ages :
              ~(u \in DOMAIN cache /\ cache[u].timestamp = tasks[t].ages[u])

(***************************************************************************)
(* Properties of the invalidation (SpecInvalidate).                        *)
(***************************************************************************)
\* The step is a call of invalidateUserCache(uid) made in slot t.
Invalidates(t, uid) ==
    /\ tasks[t].op = "idle"
    /\ tasks'[t].op = "invalidate"
    /\ tasks'[t].uid = uid

\* C21: invalidateUserCache(uid) removes the entry for uid when there is one,
\* leaves every other entry with its profile and its timestamp, changes
\* nothing and does not fail when uid has no entry, and a second call right
\* after it would change nothing.
C21_InvalidateRemovesOnlyId ==
    [][\A t \in Tasks, uid \in Users :
          Invalidates(t, uid) =>
              /\ tasks'[t].pc = "done"
              /\ uid \notin DOMAIN cache'
              /\ DOMAIN cache' = DOMAIN cache \ {uid}
              /\ \A k \in DOMAIN cache' : cache'[k] = cache[k]
              /\ (uid \notin DOMAIN cache => cache' = cache)
              /\ invalidateUser(cache', uid) = cache']_vars

\* An invalidation found an entry for its uid and another entry: the first is
\* gone and the other is there with the timestamp it had.
C21_Witness ==
    \E t \in Tasks :
        /\ tasks[t].op = "invalidate" /\ tasks[t].pc = "done"
        /\ tasks[t].uid \in DOMAIN tasks[t].ages
        /\ tasks[t].uid \notin DOMAIN cache
        /\ \E k \in DOMAIN cache :
              /\ k \in DOMAIN tasks[t].ages
              /\ cache[k].timestamp = tasks[t].ages[k]

(***************************************************************************)
(* Properties of the reads of a missing profile (SpecRead).                *)
(***************************************************************************)
\* The store has no profile for uid.
Missing(uid) == users[uid] = NoProfile

\* records and enriched agree on the name and the avatar of everything that
\* an author with no profile wrote.
MissingAuthorsAsPersisted(records, enriched) ==
    /\ Len(enriched) = Len(records)
    /\ \A i \in 1..Len(records) :
          LET p == records[i].post
              e == enriched[i].post
          IN  /\ Missing(p.authorId) =>
                    /\ e.authorName = p.authorName
                    /\ e.authorPhotoURL = p.authorPhotoURL
              /\ Len(e.comments) = Len(p.comments)
              /\ \A j \in 1..Len(p.comments) :
                    Missing(p.comments[j].authorId) =>
                        e.comments[j] = p.comments[j]

\* C22: a profile the store does not have is absent, not an error: getUser
\* for such an id fails only when the store does, returns null and caches
\* nothing for the id; getUsers leaves such ids out of the map it returns;
\* the posts getPosts returns carry the persisted name and avatar for
\* everything such an author wrote.
C22_NotFoundIsAbsence ==
    /\ \A u \in Users : Missing(u) => u \notin DOMAIN cache
    /\ \A t \in Tasks :
          /\ tasks[t].op = "getUser" /\ Missing(tasks[t].uid) =>
                /\ tasks[t].pc = "failed" => ~db \/ storeFailed
                /\ tasks[t].pc = "done" => tasks[t].user = NoProfile
          /\ tasks[t].op \in {"getUsers", "getPosts"} =>
                /\ tasks[t].pc = "failed" => ~db \/ storeFailed
                /\ \A u \in DOMAIN tasks[t].result : ~Missing(u)
          /\ tasks[t].op = "getPosts" /\ tasks[t].pc = "done" =>
                MissingAuthorsAsPersisted(tasks[t].records, tasks[t].enriched)

\* With no store failure, getUser has looked up an id that has no profile and
\* returned null, and getPosts has returned posts with a comment of an author
\* that has no profile, after asking for that author.
C22_Witness ==
    /\ ~storeFailed
    /\ \E t \in Tasks :
          /\ tasks[t].op = "getUser" /\ tasks[t].pc = "done"
          /\ Missing(tasks[t].uid) /\ tasks[t].lookups = 1
    /\ \E t \in Tasks :
          /\ tasks[t].op = "getPosts" /\ tasks[t].pc = "done"
          /\ \E u \in Range(tasks[t].uncached) : Missing(u)
          /\ \E i \in 1..Len(tasks[t].enriched) :
                \E j \in 1..Len(tasks[t].enriched[i].post.comments) :
                    Missing(tasks[t].enriched[i].post.comments[j].authorId)

(***************************************************************************)
(* Properties of the failures of the reads (SpecTTL).                      *)
(***************************************************************************)
\* The step is the first round trip to the store that fails; it is a round
\* trip of the call whose slot changes.
FirstStoreFailure == ~storeFailed /\ storeFailed'

\* C23: a getUser or getUsers call that needs the store is rejected when
\* Firestore is null and when its round trip fails: it does not return null,
\* the map without the ids, or the entry the cache still holds, and a call
\* that was rejected stays rejected.  A call that finds all it needs in the
\* cache, or asks for nothing, succeeds whatever the store does.
C23_ReadErrorsPropagate ==
    [][\A t \in Tasks :
          LET before == tasks[t]
              after  == tasks'[t]
              starts == before.op = "idle" /\ after.op \in {"getUser", "getUsers"}
              needs  == IF after.op = "getUser" THEN after.lookups = 1
                        ELSE after.uncached # <<>>
          IN  /\ starts /\ needs /\ ~db => after.pc = "failed"
              /\ starts /\ needs /\ db => after.pc \in {"lookup", "query"}
              /\ starts /\ ~needs => after.pc = "done"
              /\ before.op = "getUser" /\ before.pc = "lookup" =>
                    /\ after.pc \in {"lookup", "resume", "failed"}
                    /\ after.pc = "failed" => storeFailed'
                    /\ after.pc = "resume" =>
                          after.user = UserDoc(users, before.uid)
                    /\ FirstStoreFailure /\ after # before =>
                          after.pc = "failed"
              /\ before.op = "getUsers" /\ before.pc = "query" =>
                    /\ after.pc \in {"query", "fill", "failed"}
                    /\ after.pc = "failed" => storeFailed'
                    /\ FirstStoreFailure /\ after # before =>
                          after.pc = "failed"
              /\ before.op \in {"getUser", "getUsers"} /\ before.pc = "failed" =>
                    after.pc = "failed" \/ after.op = "idle"]_vars

\* getUser found an entry past its TTL and its lookup failed on an
\* initialised store: the call is rejected while the entry is in the map.
C23_Witness ==
    \E t \in Tasks :
        /\ tasks[t].op = "getUser" /\ tasks[t].pc = "failed"
        /\ tasks[t].age >= CACHE_TTL
        /\ tasks[t].uid \in DOMAIN cache
        /\ db /\ storeFailed

(***************************************************************************)
(* Properties of the invalidation by updateUserProfile (Spec).             *)
(***************************************************************************)
\* The step is the one in which the updateUserProfile call of slot t returns.
UpdateReturns(t) ==
    /\ tasks[t].op = "update" /\ tasks[t].pc = "finish"
    /\ tasks'[t].pc = "done"

\* The step is the one in which repair r runs to its end.
RepairEnds(r) == repairs[r].pc # "done" /\ repairs'[r].pc = "done"

\* C24: the cache entry of the user is removed when the updateUserProfile
\* call returns, and the end of the detached repair leaves the cache as it is.
C24_InvalidationWithUpdateOnly ==
    [][/\ \A t \in Tasks :
             UpdateReturns(t) =>
                 /\ tasks[t].uid \notin DOMAIN cache'
                 /\ \A k \in DOMAIN cache \ {tasks[t].uid} :
                       k \in DOMAIN cache' /\ cache'[k] = cache[k]
       /\ \A r \in Repairs : RepairEnds(r) => cache' = cache]_vars

(***************************************************************************)
(* Properties of the flushes of one repair (SpecBatch).                    *)
(***************************************************************************)
\* Repair r has a batch.commit() in flight.
InFlight(r) == repairs[r].pc \in {"commit", "commitLast"}

\* The batch of r holds, for the posts of its snapshot in order, the update of
\* the author fields and then the update of the comments.
StagedInOrder(r) ==
    LET ops == r.ops
        n == r.i - 1
    IN  /\ Len(ops) = 2 * n
        /\ \A k \in 1..n :
              /\ ops[2 * k - 1] =
                    AuthorOp(r.snapshot[k].id, r.name, r.photo)
              /\ ops[2 * k].kind = "comments"
              /\ ops[2 * k].post = r.snapshot[k].id

Acting(who) ==
    \E t \in Tasks :
        /\ tasks'[t] # tasks[t]
        /\ tasks[t].op \in {"addComment", "deleteComment", "deletePost"}
        /\ tasks[t].uid = who

\* C26: a post leaves the collection only in a step of a call of its author,
\* and a comment leaves the comments of a post that stays only in a step of a
\* call of the author of the comment or of the author of the post.
C26_DeletionAuthorized ==
    [][\A p \in DOMAIN posts :
          /\ p \notin DOMAIN posts' => Acting(posts[p].authorId)
          /\ p \in DOMAIN posts' =>
                \A i \in 1..Len(posts[p].comments) :
                    posts[p].comments[i].id \notin IdsOf(posts'[p].comments)
                    => \/ Acting(posts[p].comments[i].authorId)
                       \/ Acting(posts[p].authorId)]_vars

(***************************************************************************)
(* Properties of the repair next to comment writes (SpecRace).             *)
(***************************************************************************)
\* C27: a commit of a repair leaves every post with the comments it had: a
\* comment that was added after the repair read the post stays, and a comment
\* that was deleted after the repair read the post stays away.
C27_RepairKeepsCommentList ==
    [][\A r \in Repairs :
          Commits(r) =>
              \A p \in DOMAIN posts :
                  /\ p \in DOMAIN posts'
                  /\ IdsOf(posts'[p].comments) = IdsOf(posts[p].comments)]_vars

(***************************************************************************)
(* Properties of interleaved fills (SpecFill).                             *)
(***************************************************************************)
\* The profiles that the fills of this step write into the entry of uid: the
\* fill of a getUser call or the fill of a getUsers call.
Fills(uid) ==
    LET byGetUser ==
          {t \in Tasks : /\ tasks[t].op = "getUser" /\ tasks[t].pc = "resume"
                         /\ tasks'[t].pc = "done"
                         /\ tasks[t].uid = uid /\ tasks[t].user # NoProfile}
        byGetUsers ==
          {t \in Tasks : /\ tasks[t].op = "getUsers" /\ tasks[t].pc = "fill"
                         /\ tasks'[t].pc = "done"
                         /\ \E i \in 1..Len(tasks[t].fetched) :
                               tasks[t].fetched[i].uid = uid}
        fetchedFor(t) ==
          tasks[t].fetched[CHOOSE i \in 1..Len(tasks[t].fetched) :
                              tasks[t].fetched[i].uid = uid]
    IN  {tasks[t].user : t \in byGetUser} \cup {fetchedFor(t) : t \in byGetUsers}

\* The step is a setUser call for uid made on its own: no call moves, no time
\* passes and the entry of uid is new.
DirectSet(uid) ==
    /\ tasks' = tasks /\ clock' = clock
    /\ uid \in DOMAIN cache'
    /\ uid \in DOMAIN cache => cache'[uid] # cache[uid]

\* C28: every fill of the entry of an id, by getUser, by getUsers or by
\* setUser, leaves an entry for the id that holds the profile of that fill
\* and the time of that fill, whatever the entry held before; and the entry
\* of an id changes in no other step, so that it always is the one of the
\* last fill.
C28_LastWriterWins ==
    [][\A uid \in Users :
          LET before == IF uid \in DOMAIN cache THEN {cache[uid]} ELSE {}
              after  == IF uid \in DOMAIN cache' THEN {cache'[uid]} ELSE {}
          IN  /\ Fills(uid) # {} =>
                    /\ uid \in DOMAIN cache'
                    /\ cache'[uid].timestamp = clock
                    /\ cache'[uid].user \in Fills(uid)
              /\ DirectSet(uid) =>
                    /\ cache'[uid].timestamp = clock
                    /\ cache'[uid].user \in ProfilesOf(uid)
              /\ after # before /\ after # {} =>
                    Fills(uid) # {} \/ DirectSet(uid)]_vars

\* A getUser call and a getUsers call that both missed the entry of user 1
\* have both filled it, and a later write has replaced what they stored.
C28_Witness ==
    /\ \E t \in Tasks :
          /\ tasks[t].op = "getUser" /\ tasks[t].pc = "done"
          /\ tasks[t].uid = 1 /\ tasks[t].age = -1 /\ tasks[t].lookups = 1
    /\ \E t \in Tasks :
          /\ tasks[t].op = "getUsers" /\ tasks[t].pc = "done"
          /\ 1 \in DOMAIN tasks[t].ages /\ tasks[t].ages[1] = -1
    /\ 1 \in DOMAIN cache
    /\ cache[1].user.displayName = "n1"
    /\ cache[1].timestamp > 0

(***************************************************************************)
(* enrichPostsWithUserData: the ids it asks for and the shape it returns.  *)
(***************************************************************************)
\* The ids that occur in a list of Post objects as the author of a post or of
\* a comment.
AuthorsIn(records) ==
    {records[i].post.authorId : i \in 1..Len(records)}
    \cup UNION {{records[i].post.comments[j].authorId :
                    j \in 1..Len(records[i].post.comments)} :
                 i \in 1..Len(records)}

\* The number of author fields in a list of Post objects.
RECURSIVE AuthorFields(_)
AuthorFields(records) ==
    IF records = <<>> THEN 0
    ELSE 1 + Len(Head(records).post.comments) + AuthorFields(Tail(records))

\* C29: enrichPostsWithUserData makes one getCachedUsers call per invocation:
\* the list of ids is fixed by the step that leaves the collection of the
\* author ids, it holds every id that is the author of a post or of a comment
\* of the input exactly once and no other id, and no later step of the call
\* changes it or starts a second lookup.
C29_EnrichAsksOncePerAuthor ==
    [][\A t \in Tasks :
          tasks[t].op = "getPosts" /\ tasks'[t] # tasks[t] =>
              /\ tasks[t].pc = "enrich" =>
                    /\ Range(tasks'[t].uids) = AuthorsIn(tasks[t].records)
                    /\ Cardinality(Range(tasks'[t].uids)) = Len(tasks'[t].uids)
                    /\ DOMAIN tasks'[t].ages = Range(tasks'[t].uids)
              /\ tasks[t].pc \in {"query", "fill"} =>
                    /\ tasks'[t].uids = tasks[t].uids
                    /\ tasks'[t].ages = tasks[t].ages
                    /\ tasks'[t].pc # "enrich"
              /\ tasks[t].pc \in {"posts"} => tasks'[t].uids = <<>>]_vars

\* getPosts has returned posts in which an author occurs more than once, and
\* has asked for every author once.
C29_Witness ==
    \E t \in Tasks :
        /\ tasks[t].op = "getPosts" /\ tasks[t].pc = "done"
        /\ Len(tasks[t].uids) = 3
        /\ AuthorFields(tasks[t].records) > Len(tasks[t].uids)
        /\ Range(tasks[t].uids) = AuthorsIn(tasks[t].records)

\* C30: enrichPostsWithUserData returns as many posts as it was given, in the
\* same order and with the same post ids, and every returned post has as many
\* comments as the input post, in the same order and with the same comment
\* ids.
C30_EnrichPreservesShape ==
    \A t \in Tasks :
        tasks[t].op = "getPosts" /\ tasks[t].pc = "done" =>
            /\ Len(tasks[t].enriched) = Len(tasks[t].records)
            /\ \A i \in 1..Len(tasks[t].records) :
                  LET before == tasks[t].records[i]
                      after  == tasks[t].enriched[i]
                  IN  /\ after.id = before.id
                      /\ [j \in 1..Len(after.post.comments) |->
                            after.post.comments[j].id]
                         = [j \in 1..Len(before.post.comments) |->
                              before.post.comments[j].id]

\* getPosts has returned several posts, one of them with several comments and
\* one with a comment whose author has no profile.
C30_Witness ==
    \E t \in Tasks :
        /\ tasks[t].op = "getPosts" /\ tasks[t].pc = "done"
        /\ Len(tasks[t].enriched) > 1
        /\ \E i \in 1..Len(tasks[t].enriched) :
              Len(tasks[t].enriched[i].post.comments) > 1
        /\ \E i \in 1..Len(tasks[t].enriched) :
              \E j \in 1..Len(tasks[t].enriched[i].post.comments) :
                  tasks[t].enriched[i].post.comments[j].authorId
                      \notin DOMAIN tasks[t].result

(***************************************************************************)
(* Reads of one user across a profile update (Spec).                       *)
(***************************************************************************)
\* The profiles of uid that a finished getUser or getUsers call returned.
ReturnedProfiles(task, uid) ==
    IF task.pc # "done" THEN {}
    ELSE IF task.op = "getUser" /\ task.uid = uid /\ task.user # NoProfile
    THEN {task.user}
    ELSE IF task.op = "getUsers" /\ uid \in DOMAIN task.result
    THEN {task.result[uid]}
    ELSE {}

\* The profiles of uid that a call serves from the cache in the step that
\* issues it.
ServedAtStart(before, after, uid) ==
    IF before.op # "idle" THEN {}
    ELSE IF after.op = "getUser" /\ after.uid = uid /\ after.pc = "done"
    THEN {after.user}
    ELSE IF after.op = "getUsers" /\ uid \in DOMAIN after.result
    THEN {after.result[uid]}
    ELSE {}

\* C31: reads of one user are monotonic: while no round trip to the store has
\* failed, a getUser or getUsers call issued after another call has returned a
\* profile of the user never serves an older profile of that user from the
\* cache.
C31_MonotonicReads ==
    [][~storeFailed =>
          \A uid \in Users : \A s \in Tasks, t \in Tasks :
              \A seen \in ReturnedProfiles(tasks[s], uid) :
                  \A served \in ServedAtStart(tasks[t], tasks'[t], uid) :
                      served.rev >= seen.rev]_vars


\* An updateUserProfile call that has written the profile settles in the step.
SettlesAfterWrite(t) ==
    /\ tasks[t].op = "update" /\ tasks[t].wrote > 0
    /\ tasks[t].pc \notin {"done", "failed"}
    /\ tasks'[t].pc \in {"done", "failed"}

\* C32: when an updateUserProfile call that has written the profile to the
\* store settles, resolved or rejected, the cache has no entry for the user.
C32_InvalidationFollowsWrite ==
    [][\A t \in Tasks :
          SettlesAfterWrite(t) => tasks[t].uid \notin DOMAIN cache']_vars


(***************************************************************************)
(* A getUsers call that fails (SpecChunk).                                 *)
(***************************************************************************)
\* C33: a getUsers call changes the cache in no step but the one that follows
\* the return of batchGetUsers, and a call of which a query failed never
\* takes that step: it is rejected and has inserted, refreshed and removed
\* nothing, also when earlier queries of the call had returned profiles.
C33_FailedGetUsersLeavesCache ==
    [][\A t \in Tasks :
          tasks'[t] # tasks[t]
          /\ (tasks[t].op = "getUsers" \/ tasks'[t].op = "getUsers") =>
              /\ tasks[t].pc # "fill" => cache' = cache
              /\ tasks'[t].pc = "failed" /\ tasks[t].pc = "query" =>
                    storeFailed'
              /\ tasks[t].pc = "failed" => tasks'[t] = IdleTask
              /\ tasks[t].pc = "fill" =>
                    Len(tasks[t].calls) =
                        Len(BatchesFrom(tasks[t].uncached, 0))]_vars

\* A getUsers call was rejected by its second query after the first had
\* returned profiles, and none of them is in the cache.
C33_Witness ==
    \E t \in Tasks :
        /\ tasks[t].op = "getUsers" /\ tasks[t].pc = "failed"
        /\ Len(tasks[t].calls) = 2
        /\ Len(tasks[t].fetched) > 0
        /\ \A i \in 1..Len(tasks[t].fetched) :
              tasks[t].fetched[i].uid \notin DOMAIN cache


(***************************************************************************)
(* Properties of a repair that fails (SpecPartial).                        *)
(***************************************************************************)
\* Repair r is rejected in the step.
Fails(r) == repairs[r].pc # "failed" /\ repairs'[r].pc = "failed"

\* The posts of the snapshot of r that its batches committed so far hold, and
\* the ones they do not.
Flushed(r) == {r.ops[k].post : k \in 1..Len(r.ops)}
Unflushed(r) == {r.snapshot[k].id : k \in 1..Len(r.snapshot)} \ Flushed(r)

C35_ClearWithLookupsInFlight ==
    [][\A t \in Tasks :
          /\ tasks[t].op = "idle" /\ tasks'[t].op = "logoutUser"
             /\ tasks'[t].pc # "failed" => cache' = EmptyCache
          /\ tasks[t].cleared /\ tasks'[t] # tasks[t] =>
                \A u \in DOMAIN cache' :
                    u \in DOMAIN cache /\ cache'[u] = cache[u]]_vars


(***************************************************************************)
(* Which updates start a repair (SpecTrigger).                             *)
(***************************************************************************)
\* The step starts a repair.
StartsRepair ==
    \E r \in Repairs : repairs[r].pc = "idle" /\ repairs'[r].pc # "idle"

\* C36: an updateUserProfile call that returns has started a repair exactly
\* when its data carries a display name or an avatar, the empty display name
\* included, and has removed the cache entry of the user in either case.
C36_RepairTrigger ==
    [][\A t \in Tasks :
          UpdateReturns(t) =>
              /\ tasks[t].uid \notin DOMAIN cache'
              /\ StartsRepair <=>
                    \/ "displayName" \in DOMAIN tasks[t].data
                    \/ "photoURL" \in DOMAIN tasks[t].data]_vars


(***************************************************************************)
(* The state of AuthProvider (SpecAuth).                                   *)
(***************************************************************************)
\* C37: once every call of the auth state listener has finished, a context
\* with no user has no user profile.
C37_AuthStateConsistent ==
    (\A t \in Tasks : tasks[t].op = "authChanged" => tasks[t].pc = "done")
    /\ session.user = 0
    => session.userProfile = NoProfile


(***************************************************************************)
(* Likes of two users on one post (SpecLikes).                             *)
(***************************************************************************)
\* Neither of the two users is in the list the call read.
ReadNeither(task, u1, u2) == u1 \notin Range(task.likes) /\ u2 \notin Range(task.likes)

\* C38: when two users who had not liked a post toggle their like at the same
\* time, the write of the second call keeps the like the first call has
\* written: after it the likes of the post hold both users.
C38_ConcurrentLikesKept ==
    [][\A t1 \in Tasks, t2 \in Tasks :
          LET a == tasks[t1]
              b == tasks[t2]
          IN  /\ a.op = "toggleLike" /\ b.op = "toggleLike"
              /\ a.post = b.post /\ a.uid # b.uid
              /\ a.post \in DOMAIN posts
              /\ a.pc = "done" /\ b.pc = "write" /\ tasks'[t2].pc = "done"
              /\ ReadNeither(a, a.uid, b.uid) /\ ReadNeither(b, a.uid, b.uid)
              /\ a.uid \in Range(posts[a.post].likes)
              => {a.uid, b.uid} \subseteq Range(posts'[a.post].likes)]_vars


(***************************************************************************)
(* The text of formatTimeAgo (SpecTimeAgo).                                *)
(***************************************************************************)
\* The units in the order of the ages they stand for.
UnitRank(unit) ==
    CASE unit = "just now" -> 0
      [] unit = "minute"   -> 1
      [] unit = "hour"     -> 2
      [] unit = "day"      -> 3
      [] unit = "week"     -> 4
      [] unit = "month"    -> 5
      [] unit = "year"     -> 6

\* C39: for a date of an age of at most MaxDays days, formatTimeAgo returns
\* 'just now' when the age is under 60 seconds, dates in the future included,
\* and otherwise a count of at least one of a unit, with the plural s exactly
\* for a count above one; a date a second, a minute, an hour or a day younger
\* never gets a larger unit.
C39_TimeAgoNeverZero ==
    \A t \in Tasks :
        tasks[t].op = "formatTimeAgo" =>
            LET diff == tasks[t].diff
                text == tasks[t].text
            IN  /\ diff < 60 => text = JustNow
                /\ diff >= 60 =>
                      /\ text.unit # "just now"
                      /\ text.count >= 1
                      /\ text.plural <=> text.count > 1
                /\ \A step \in {1, 60, 3600, 86400} :
                      UnitRank(formatTimeAgo(diff - step).unit)
                          <= UnitRank(text.unit)

=============================================================================
